---- MODULE Spec2Model ----
(***************************************************************************)
(* A model of gitflow-cli: the configuration store, the three service      *)
(* adapters (version control, hosting API, text generation) and the        *)
(* command handlers that call them.  One process runs one command; the     *)
(* handler of a command is one action.  What a handler did is kept as the  *)
(* sequence of adapter calls, prompts and reports it made (trace) and the  *)
(* exit code of the process.                                               *)
(***************************************************************************)
EXTENDS Integers, Sequences, FiniteSets, TLC

VARIABLES
  phase,       \* "idle": no process runs; "done": a command has just run
  configFile,  \* the persisted configuration document: key -> value set by the user
  cmd,         \* the command line of the process: name and options
  inp,         \* what the outside world (engine, services, user) answered during the process
  trace,       \* adapter calls, prompts and reports of the process, in program order
  exitCode,    \* -1 while no process has run, else the exit code of the process
  sent,        \* the parameters handed to the hosting adapter's create call
  out          \* what the process printed of the configuration, or a service call returned

vars == <<phase, configFile, cmd, inp, trace, exitCode, sent, out>>

\* Longest working-tree diff text, in characters.
MaxDiffLen == 1

Range(s) == {s[i] : i \in 1..Len(s)}
Has(t, e) == e \in Range(t)
\* every occurrence of b in t has an occurrence of a before it
Precedes(t, a, b) == \A j \in 1..Len(t) : t[j] = b => \E i \in 1..(j-1) : t[i] = a
SeqsUpTo(S, n) == UNION {[1..k -> S] : k \in 0..n}

(***************************************************************************)
(* JavaScript values, as far as the configuration store holds them.        *)
(***************************************************************************)
Undef == [type |-> "undefined", s |-> <<>>, n |-> 0, b |-> FALSE]
Str(x) == [type |-> "string", s |-> x, n |-> 0, b |-> FALSE]
Num(x) == [type |-> "number", s |-> <<>>, n |-> x, b |-> FALSE]
Bool(x) == [type |-> "boolean", s |-> <<>>, n |-> 0, b |-> x]

\* JavaScript truthiness: what `if (v)`, `!v` and `v || d` test
Truthy(v) ==
  CASE v.type = "string" -> v.s # <<>>
    [] v.type = "number" -> v.n # 0
    [] v.type = "boolean" -> v.b
    [] OTHER -> FALSE

(***************************************************************************)
(* Configuration store                                                     *)
(***************************************************************************)
Keys == {"githubToken", "defaultBranch", "aiProvider", "aiApiKey", "editor", "autoOpenPr"}

\* Strings that flow through the configuration are sequences of characters.
S_main == <<"m", "a", "i", "n">>
S_develop == <<"d", "e", "v">>
S_feature == <<"f", "x">>
S_openai == <<"o", "p", "e", "n", "a", "i">>
S_anthropic == <<"a", "n", "t", "h", "r", "o", "p", "i", "c">>
S_local == <<"l", "o", "c", "a", "l">>
S_gemini == <<"g", "e", "m", "i", "n", "i">>
S_true == <<"t", "r", "u", "e">>
S_false == <<"f", "a", "l", "s", "e">>
S_apiKey == <<"s", "k", "-", "9", "z">>
S_token == <<"g", "h", "p", "_", "a", "1", "b", "2">>

ConfDefaults ==
  [k \in Keys |->
     CASE k = "defaultBranch" -> Str(S_main)
       [] k = "aiProvider" -> Str(S_openai)
       [] k = "autoOpenPr" -> Bool(FALSE)
       [] OTHER -> Undef]

EmptyFile == [k \in Keys |-> Undef]

\* the store the process works on: the defaults overlaid by the persisted document
Store(file) == [k \in Keys |-> IF file[k] = Undef THEN ConfDefaults[k] ELSE file[k]]

ConfigGet(file, k) == Store(file)[k]

(***************************************************************************)
(* Text: a diff is a sequence of characters; trim() drops the white space  *)
(* at both ends.                                                           *)
(***************************************************************************)
Chars == {" ", "x"}
LF == "\n"
IsSpace(c) == c \in {" ", LF}

RECURSIVE TrimLeft(_)
TrimLeft(s) == IF s # <<>> /\ IsSpace(Head(s)) THEN TrimLeft(Tail(s)) ELSE s

RECURSIVE TrimRight(_)
TrimRight(s) ==
  IF s # <<>> /\ IsSpace(s[Len(s)]) THEN TrimRight(SubSeq(s, 1, Len(s) - 1)) ELSE s

Trim(s) == TrimRight(TrimLeft(s))

Diffs == SeqsUpTo(Chars, MaxDiffLen)

(***************************************************************************)
(* Generation adapter (AIService)                                          *)
(***************************************************************************)
\* a variant that takes the stored selector as it is, without the fallback
GetProviderStored(store) == store["aiProvider"]

GetProvider(store) ==
  IF Truthy(store["aiProvider"]) THEN store["aiProvider"] ELSE Str(S_openai)

\* a variant whose switch sends every selector but anthropic to the openai backend
SelectBackendLenient(provider) ==
  IF provider = Str(S_anthropic) THEN "anthropic" ELSE "openai"

\* the switch of the four generate* methods
SelectBackend(provider) ==
  IF provider = Str(S_openai) THEN "openai"
  ELSE IF provider = Str(S_anthropic) THEN "anthropic"
  ELSE "unsupported"

\* a variant of getApiKey that never throws
ApiKeyAssumed(store) == TRUE

\* getApiKey throws unless a key is configured
ApiKeyConfigured(store) == Truthy(store["aiApiKey"])

\* generateWithOpenAI / generateWithAnthropic: key, then one HTTP request
GenerateWith(backend, store, httpOk) ==
  IF ~ApiKeyConfigured(store)
  THEN [ok |-> FALSE, t |-> <<"throw:ai.config">>]
  ELSE IF httpOk
  THEN [ok |-> TRUE, t |-> <<"http." \o backend>>]
  ELSE [ok |-> FALSE, t |-> <<"http." \o backend, "throw:ai.api">>]

\* generateCommitMessage, generatePRDescription, reviewCode, generateIssueTitle
Generate(intent, store, httpOk) ==
  LET backend == SelectBackend(GetProvider(store))
      r == IF backend = "unsupported"
           THEN [ok |-> FALSE, t |-> <<"throw:ai.config">>]
           ELSE GenerateWith(backend, store, httpOk)
  IN [ok |-> r.ok, t |-> <<"ai." \o intent>> \o r.t]

Intents == {"commit", "pr", "review", "issue"}
AiCalls == {"ai." \o i : i \in Intents}
HttpAi == {"http.openai", "http.anthropic"}

(***************************************************************************)
(* Remote URLs are sequences of lexemes.  HasSlash and HasDot say which    *)
(* lexemes hold a '/' or a '.' character.                                  *)
(***************************************************************************)
UrlTokens == {"https://", "git@", "github.com", "gitlab.com", "/", ":", ".git", "acme", "widgets", "my.repo"}
HasSlash(tok) == tok \in {"https://", "/"}
HasDot(tok) == tok \in {"github.com", "gitlab.com", ".git", "my.repo"}

NoMatch == [ok |-> FALSE, owner |-> <<>>, repo |-> <<>>]

\* remoteUrl.match(/github\.com[\/:]([^\/]+)\/([^\/.]+)(\.git)?$/) tried at lexeme i:
\* the owner runs to the first '/', the repository name as far as neither '/'
\* nor '.' occurs, and what is left must be nothing or ".git"
MatchAt(u, i) ==
  IF ~(i + 1 <= Len(u) /\ u[i] = "github.com" /\ u[i+1] \in {"/", ":"}) THEN NoMatch
  ELSE
    LET slashes == {j \in (i+2)..Len(u) : HasSlash(u[j])} IN
    IF slashes = {} THEN NoMatch
    ELSE
      LET j == CHOOSE m \in slashes : \A m2 \in slashes : m <= m2
          ends == {k \in j..Len(u) : \A q \in (j+1)..k : ~HasSlash(u[q]) /\ ~HasDot(u[q])}
          k == CHOOSE m \in ends : \A m2 \in ends : m2 <= m
          rest == SubSeq(u, k + 1, Len(u))
      IN IF j > i + 2 /\ u[j] = "/" /\ k > j /\ rest \in {<<>>, <<".git">>}
         THEN [ok |-> TRUE, owner |-> SubSeq(u, i + 2, j - 1), repo |-> SubSeq(u, j + 1, k)]
         ELSE NoMatch

\* String.prototype.match without the g flag: the leftmost match
ExtractOwnerRepo(u) ==
  LET starts == {i \in 1..Len(u) : MatchAt(u, i).ok} IN
  IF starts = {} THEN NoMatch
  ELSE MatchAt(u, CHOOSE i \in starts : \A i2 \in starts : i <= i2)

UrlHttpsGit == <<"https://", "github.com", "/", "acme", "/", "widgets", ".git">>
UrlSsh == <<"git@", "github.com", ":", "acme", "/", "widgets">>
UrlOtherHost == <<"https://", "gitlab.com", "/", "acme", "/", "widgets", ".git">>
UrlDotted == <<"https://", "github.com", "/", "acme", "/", "my.repo", ".git">>
NoRemote == <<>>

(***************************************************************************)
(* Version-control adapter (GitService), as the handlers see it.  `fail`   *)
(* is the set of engine operations that fail in this process.              *)
(***************************************************************************)
\* getRemoteUrl: an engine failure is caught and undefined returned
GetRemoteUrl(url, fail) == IF "git.getRemotes" \in fail THEN NoRemote ELSE url

(***************************************************************************)
(* Hosting adapter (GitHubService): getClient, then one request            *)
(***************************************************************************)
TokenConfigured(store) == Truthy(store["githubToken"])

HostingCall(op, store, apiOk) ==
  IF ~TokenConfigured(store)
  THEN [ok |-> FALSE, t |-> <<"gh." \o op, "throw:gh.config">>]
  ELSE IF apiOk
  THEN [ok |-> TRUE, t |-> <<"gh." \o op, "http.github">>]
  ELSE [ok |-> FALSE, t |-> <<"gh." \o op, "http.github", "throw:gh.api">>]

(***************************************************************************)
(* Results of a handler: the trace, the exit code, and what it changed     *)
(***************************************************************************)
NoSent == [kind |-> "none", owner |-> <<>>, repo |-> <<>>, title |-> "", body |-> "",
           head |-> <<>>, base |-> <<>>, labels |-> <<>>, assignees |-> <<>>, draft |-> FALSE]

\* the owner and repository every hosting call of pr and issue is given
WithRepo(r, m) ==
  IF r.sent.kind = "none" THEN r ELSE [r EXCEPT !.sent.owner = m.owner, !.sent.repo = m.repo]

\* nothing printed of the configuration, no status returned
NoOut == [got |-> Undef, token |-> <<>>, apiKey |-> <<>>, staged |-> <<>>, changed |-> <<>>,
          conflicts |-> <<>>, ahead |-> 0, behind |-> 0]

\* the process ends normally
Done(t) == [t |-> t, x |-> 0, sent |-> NoSent, out |-> NoOut]
\* process.exit(1)
Exit1(t) == [t |-> t \o <<"exit1">>, x |-> 1, sent |-> NoSent, out |-> NoOut]

(***************************************************************************)
(* commit                                                                  *)
(***************************************************************************)
\* gitService.commit inside its own try/catch
CommitStep(t, fail) ==
  IF "git.commit" \in fail
  THEN Exit1(t \o <<"git.commit", "throw:git.commit", "report:commit-failed">>)
  ELSE Done(t \o <<"git.commit", "ok:commit">>)

\* the catch block of the AI branch: ask for the message, then commit
CommitManual(t, fail) == CommitStep(t \o <<"report:ai-failed", "prompt.input:message">>, fail)

\* after the generated message was shown
CommitConfirm(t, confirmed, fail) ==
  IF confirmed
  THEN CommitStep(t \o <<"prompt.confirm:use-message", "answer:yes">>, fail)
  ELSE CommitStep(t \o <<"prompt.confirm:use-message", "answer:no", "prompt.input:message">>, fail)

\* the AI branch: diff, empty check, generation, confirmation
CommitAi(t, store, in) ==
  IF "git.getDiff" \in in.fail
  THEN CommitManual(t \o <<"git.getDiff", "throw:git.getDiff">>, in.fail)
  ELSE IF Trim(in.diff) = <<>>
  THEN Done(t \o <<"git.getDiff", "warn:no-changes">>)
  ELSE LET g == Generate("commit", store, in.httpOk) IN
       IF ~g.ok THEN CommitManual(t \o <<"git.getDiff">> \o g.t, in.fail)
       ELSE CommitConfirm(t \o <<"git.getDiff">> \o g.t, "use-message" \in in.yes, in.fail)

CommitMessage(t, o, store, in) ==
  IF o.message = "" /\ o.ai THEN CommitAi(t, store, in)
  ELSE IF o.message = "" THEN CommitStep(t \o <<"prompt.input:message">>, in.fail)
  ELSE CommitStep(t, in.fail)

CommitCmd(o, repo, store, in) ==
  IF ~repo THEN Exit1(<<"git.isRepository", "report:not-a-repository">>)
  ELSE IF o.all /\ "git.add" \in in.fail
  THEN Exit1(<<"git.isRepository", "git.add", "throw:git.add", "report:error">>)
  ELSE CommitMessage(<<"git.isRepository">> \o (IF o.all THEN <<"git.add">> ELSE <<>>), o, store, in)

(***************************************************************************)
(* ai <commit|review|summary>                                              *)
(***************************************************************************)
\* stage everything and commit with the generated message
AiStageCommit(t, fail) ==
  IF "git.add" \in fail
  THEN Exit1(t \o <<"git.add", "throw:git.add", "report:ai-failed">>)
  ELSE IF "git.commit" \in fail
  THEN Exit1(t \o <<"git.add", "git.commit", "throw:git.commit", "report:ai-failed">>)
  ELSE Done(t \o <<"git.add", "git.commit", "ok:commit">>)

\* generateCommitMessage(spinner)
AiCommit(t, store, in) ==
  IF "git.getDiff" \in in.fail
  THEN Exit1(t \o <<"git.getDiff", "throw:git.getDiff", "report:ai-failed">>)
  ELSE IF Trim(in.diff) = <<>>
  THEN Done(t \o <<"git.getDiff", "warn:no-changes">>)
  ELSE LET g == Generate("commit", store, in.httpOk)
           t1 == t \o <<"git.getDiff">> \o g.t
       IN IF ~g.ok THEN Exit1(t1 \o <<"report:ai-failed">>)
          ELSE IF "use-message" \in in.yes
          THEN AiStageCommit(t1 \o <<"prompt.confirm:use-message", "answer:yes">>, in.fail)
          ELSE Done(t1 \o <<"prompt.confirm:use-message", "answer:no", "report:cancelled">>)

\* reviewCode, from the diff on
AiReviewDiff(t, store, in) ==
  IF "git.getDiff" \in in.fail
  THEN Exit1(t \o <<"git.getDiff", "throw:git.getDiff", "report:ai-failed">>)
  ELSE IF Trim(in.diff) = <<>>
  THEN Done(t \o <<"git.getDiff", "warn:no-changes">>)
  ELSE LET g == Generate("review", store, in.httpOk)
           t1 == t \o <<"git.getDiff">> \o g.t
       IN IF ~g.ok THEN Exit1(t1 \o <<"report:ai-failed">>)
          ELSE IF "apply" \in in.yes
          THEN Done(t1 \o <<"prompt.confirm:apply", "answer:yes", "report:apply-manually">>)
          ELSE Done(t1 \o <<"prompt.confirm:apply", "answer:no">>)

\* reviewCode: --file, --diff, or the staged paths
AiReview(t, o, store, in) ==
  IF o.file # "" \/ o.diff THEN AiReviewDiff(t, store, in)
  ELSE IF "git.status" \in in.fail
  THEN Exit1(t \o <<"git.status", "throw:git.status", "report:ai-failed">>)
  ELSE IF in.empty THEN Done(t \o <<"git.status", "warn:no-staged-changes">>)
  ELSE AiReviewDiff(t \o <<"git.status">>, store, in)

\* generateSummary: the generation failure is caught and only warned about
AiSummary(t, store, in) ==
  IF "git.getCommits" \in in.fail
  THEN Exit1(t \o <<"git.getCommits", "throw:git.getCommits", "report:summary-failed">>)
  ELSE LET t1 == t \o <<"git.getCommits", "git.status", "git.getBranches">> IN
       IF in.empty THEN Done(t1)
       ELSE LET g == Generate("commit", store, in.httpOk) IN
            IF g.ok THEN Done(t1 \o g.t) ELSE Done(t1 \o g.t \o <<"warn:no-insights">>)

AiCmd(o, repo, store, in) ==
  IF ~repo THEN Exit1(<<"git.isRepository", "report:not-a-repository">>)
  ELSE IF o.action = "commit" THEN AiCommit(<<"git.isRepository">>, store, in)
  ELSE IF o.action = "review" THEN AiReview(<<"git.isRepository">>, o, store, in)
  ELSE IF o.action = "summary" THEN AiSummary(<<"git.isRepository">>, store, in)
  ELSE Exit1(<<"git.isRepository", "report:unknown-action">>)

(***************************************************************************)
(* The context of pr and issue: repository, remote, owner/repo             *)
(***************************************************************************)
\* a variant that does not test whether the URL matched
RepoContextUnparsed(repo, url, fail) ==
  IF ~repo
  THEN [ok |-> FALSE, t |-> <<"git.isRepository", "report:not-a-repository">>, m |-> NoMatch]
  ELSE IF GetRemoteUrl(url, fail) = NoRemote
  THEN [ok |-> FALSE, t |-> <<"git.isRepository", "git.getRemoteUrl", "report:no-remote">>, m |-> NoMatch]
  ELSE [ok |-> TRUE, t |-> <<"git.isRepository", "git.getRemoteUrl", "ok:context">>,
        m |-> ExtractOwnerRepo(GetRemoteUrl(url, fail))]

RepoContext(repo, url, fail) ==
  IF ~repo
  THEN [ok |-> FALSE, t |-> <<"git.isRepository", "report:not-a-repository">>, m |-> NoMatch]
  ELSE IF GetRemoteUrl(url, fail) = NoRemote
  THEN [ok |-> FALSE, t |-> <<"git.isRepository", "git.getRemoteUrl", "report:no-remote">>, m |-> NoMatch]
  ELSE LET m == ExtractOwnerRepo(GetRemoteUrl(url, fail)) IN
       IF ~m.ok
       THEN [ok |-> FALSE, t |-> <<"git.isRepository", "git.getRemoteUrl", "report:invalid-url">>, m |-> NoMatch]
       ELSE [ok |-> TRUE, t |-> <<"git.isRepository", "git.getRemoteUrl", "ok:context">>, m |-> m]

(***************************************************************************)
(* pr <list|create|merge|show>                                             *)
(***************************************************************************)
\* const baseBranch = options.base || 'main', options.base defaulting to 'main'
PrBaseBranch(baseFlag, store) == IF baseFlag # <<>> THEN baseFlag ELSE S_main

\* const shouldOpen = options.open || configManager.get('autoOpenPr')
PrShouldOpen(openFlag, store) == openFlag \/ Truthy(store["autoOpenPr"])

\* the title: the flag, else a prompt
PrTitle(t, o) ==
  IF o.title = "" THEN [t |-> t \o <<"prompt.input:title">>, title |-> "typed title"]
  ELSE [t |-> t, title |-> o.title]

\* the body: the flag, else with --ai a generated one the user may replace
PrAiBody(t, o, store, in) ==
  IF ~(o.body = "" /\ o.ai) THEN [t |-> t, body |-> o.body]
  ELSE IF "git.getDiff" \in in.fail
  THEN [t |-> t \o <<"git.getDiff", "throw:git.getDiff", "report:ai-failed">>, body |-> ""]
  ELSE LET g == Generate("pr", store, in.httpOk)
           t1 == t \o <<"git.getDiff">> \o g.t
       IN IF ~g.ok THEN [t |-> t1 \o <<"report:ai-failed">>, body |-> ""]
          ELSE IF "use-description" \in in.yes
          THEN [t |-> t1 \o <<"prompt.confirm:use-description", "answer:yes">>,
                body |-> "generated body"]
          ELSE [t |-> t1 \o <<"prompt.confirm:use-description", "answer:no", "prompt.editor:body">>,
                body |-> "edited body"]

\* if (!body) prompt for it
PrAskBody(r) ==
  IF r.body = "" THEN [t |-> r.t \o <<"prompt.input:body">>, body |-> "typed body"] ELSE r

PrSubmit(t, title, body, head, base, o, store, in) ==
  LET h == HostingCall("createPullRequest", store, in.apiOk)
      args == [kind |-> "pr", owner |-> <<>>, repo |-> <<>>, title |-> title, body |-> body, head |-> head, base |-> base,
               labels |-> <<>>, assignees |-> <<>>, draft |-> o.draft]
  IN IF ~h.ok THEN [Exit1(t \o h.t \o <<"report:create-failed">>) EXCEPT !.sent = args]
     ELSE IF PrShouldOpen(o.open, store)
     THEN [Done(t \o h.t \o <<"ok:created", "open">>) EXCEPT !.sent = args]
     ELSE [Done(t \o h.t \o <<"ok:created">>) EXCEPT !.sent = args]

\* a variant without the comparison of the current branch and the base
PrCreateUnchecked(t, o, branch, store, in) ==
  IF "git.getCurrentBranch" \in in.fail
  THEN Exit1(t \o <<"git.getCurrentBranch", "throw:git.getCurrentBranch", "report:error">>)
  ELSE LET ti == PrTitle(t \o <<"git.getCurrentBranch">>, o)
           bo == PrAskBody(PrAiBody(ti.t, o, store, in))
       IN PrSubmit(bo.t, ti.title, bo.body, branch, PrBaseBranch(o.base, store), o, store, in)

PrCreate(t, o, branch, store, in) ==
  IF "git.getCurrentBranch" \in in.fail
  THEN Exit1(t \o <<"git.getCurrentBranch", "throw:git.getCurrentBranch", "report:error">>)
  ELSE IF branch = PrBaseBranch(o.base, store)
  THEN Exit1(t \o <<"git.getCurrentBranch", "report:pr-from-base">>)
  ELSE LET ti == PrTitle(t \o <<"git.getCurrentBranch">>, o)
           bo == PrAskBody(PrAiBody(ti.t, o, store, in))
       IN PrSubmit(bo.t, ti.title, bo.body, branch, PrBaseBranch(o.base, store), o, store, in)

PrList(t, store, in) ==
  LET h == HostingCall("getPullRequests", store, in.apiOk) IN
  IF ~h.ok THEN Exit1(t \o h.t \o <<"report:fetch-failed">>) ELSE Done(t \o h.t)

\* mergePR only opens the chosen pull request in the browser
PrMerge(t, store, in) ==
  LET h == HostingCall("getPullRequests", store, in.apiOk) IN
  IF ~h.ok THEN Exit1(t \o h.t \o <<"report:fetch-failed">>)
  ELSE IF in.empty THEN Done(t \o h.t \o <<"warn:no-pull-requests">>)
  ELSE Done(t \o h.t \o <<"prompt.list:select", "prompt.list:method", "open">>)

PrShow(t, store, in) ==
  LET h == HostingCall("getPullRequests", store, in.apiOk) IN
  IF ~h.ok THEN Exit1(t \o h.t \o <<"report:fetch-failed">>)
  ELSE IF in.empty THEN Done(t \o h.t \o <<"warn:no-pull-requests">>)
  ELSE IF "open-browser" \in in.yes
  THEN Done(t \o h.t \o <<"prompt.list:select", "prompt.confirm:open-browser", "answer:yes", "open">>)
  ELSE Done(t \o h.t \o <<"prompt.list:select", "prompt.confirm:open-browser", "answer:no">>)

PrCmd(o, repo, url, branch, store, in) ==
  LET c == RepoContext(repo, url, in.fail) IN
  IF ~c.ok THEN Exit1(c.t)
  ELSE IF o.action = "list" THEN PrList(c.t, store, in)
  ELSE IF o.action = "create" THEN WithRepo(PrCreate(c.t, o, branch, store, in), c.m)
  ELSE IF o.action = "merge" THEN PrMerge(c.t, store, in)
  ELSE IF o.action = "show" THEN PrShow(c.t, store, in)
  ELSE Exit1(c.t \o <<"report:unknown-action">>)

(***************************************************************************)
(* issue <list|create|show>                                                *)
(***************************************************************************)
RECURSIVE SplitComma(_)
\* String.prototype.split(',')
SplitComma(s) ==
  LET commas == {i \in 1..Len(s) : s[i] = ","} IN
  IF commas = {} THEN <<s>>
  ELSE LET i == CHOOSE m \in commas : \A m2 \in commas : m <= m2
       IN <<SubSeq(s, 1, i - 1)>> \o SplitComma(SubSeq(s, i + 1, Len(s)))

\* options.labels ? options.labels.split(',').map(l => l.trim()) : []
ParseList(flag) ==
  IF flag = <<>> THEN <<>>
  ELSE [i \in 1..Len(SplitComma(flag)) |-> Trim(SplitComma(flag)[i])]

\* the title: the flag, else with --ai a generated one; the description typed for
\* the generation becomes the body
IssueAiTitle(t, o, store, in) ==
  IF ~(o.title = "" /\ o.ai) THEN [t |-> t, title |-> o.title, body |-> o.body]
  ELSE LET g == Generate("issue", store, in.httpOk)
           t1 == t \o <<"prompt.input:description">> \o g.t
       IN IF ~g.ok THEN [t |-> t1 \o <<"report:ai-failed">>, title |-> "", body |-> o.body]
          ELSE IF "use-title" \in in.yes
          THEN [t |-> t1 \o <<"prompt.confirm:use-title", "answer:yes">>,
                title |-> "generated title", body |-> "typed description"]
          ELSE [t |-> t1 \o <<"prompt.confirm:use-title", "answer:no", "prompt.input:title">>,
                title |-> "typed title", body |-> "typed description"]

IssueAskTitle(r) ==
  IF r.title = "" THEN [r EXCEPT !.t = r.t \o <<"prompt.input:title">>, !.title = "typed title"]
  ELSE r

IssueAskBody(r) ==
  IF r.body = "" THEN [r EXCEPT !.t = r.t \o <<"prompt.input:body">>, !.body = "typed body"]
  ELSE r

\* 'Add labels?' is asked whatever --labels gave; the selection replaces the labels
IssueLabels(t, flagLabels, in) ==
  IF "add-labels" \in in.yes
  THEN [t |-> t \o <<"prompt.confirm:add-labels", "answer:yes", "prompt.checkbox:labels">>,
        labels |-> in.picked]
  ELSE [t |-> t \o <<"prompt.confirm:add-labels", "answer:no">>, labels |-> flagLabels]

IssueSubmit(t, title, body, labels, assignees, store, in) ==
  LET h == HostingCall("createIssue", store, in.apiOk)
      args == [kind |-> "issue", owner |-> <<>>, repo |-> <<>>, title |-> title, body |-> body, head |-> <<>>, base |-> <<>>,
               labels |-> labels, assignees |-> assignees, draft |-> FALSE]
  IN IF ~h.ok THEN [Exit1(t \o h.t \o <<"report:create-failed">>) EXCEPT !.sent = args]
     ELSE IF "open-browser" \in in.yes
     THEN [Done(t \o h.t \o <<"ok:created", "prompt.confirm:open-browser", "answer:yes", "open">>)
             EXCEPT !.sent = args]
     ELSE [Done(t \o h.t \o <<"ok:created", "prompt.confirm:open-browser", "answer:no">>)
             EXCEPT !.sent = args]

IssueCreate(t, o, store, in) ==
  LET r == IssueAskBody(IssueAskTitle(IssueAiTitle(t, o, store, in)))
      l == IssueLabels(r.t, ParseList(o.labels), in)
  IN IssueSubmit(l.t, r.title, r.body, l.labels, ParseList(o.assignees), store, in)

\* listIssues and showIssue first ask for the state filter
IssueList(t, store, in) ==
  LET h == HostingCall("getIssues", store, in.apiOk) IN
  IF ~h.ok THEN Exit1(t \o <<"prompt.list:state">> \o h.t \o <<"report:fetch-failed">>)
  ELSE Done(t \o <<"prompt.list:state">> \o h.t)

IssueShow(t, store, in) ==
  LET h == HostingCall("getIssues", store, in.apiOk)
      t1 == t \o <<"prompt.list:state">> \o h.t
  IN IF ~h.ok THEN Exit1(t1 \o <<"report:fetch-failed">>)
     ELSE IF in.empty THEN Done(t1 \o <<"warn:no-issues">>)
     ELSE IF "open-browser" \in in.yes
     THEN Done(t1 \o <<"prompt.list:select", "prompt.confirm:open-browser", "answer:yes", "open">>)
     ELSE Done(t1 \o <<"prompt.list:select", "prompt.confirm:open-browser", "answer:no">>)

IssueCmd(o, repo, url, store, in) ==
  LET c == RepoContext(repo, url, in.fail) IN
  IF ~c.ok THEN Exit1(c.t)
  ELSE IF o.action = "list" THEN IssueList(c.t, store, in)
  ELSE IF o.action = "create" THEN WithRepo(IssueCreate(c.t, o, store, in), c.m)
  ELSE IF o.action = "show" THEN IssueShow(c.t, store, in)
  ELSE Exit1(c.t \o <<"report:unknown-action">>)

(***************************************************************************)
(* init                                                                    *)
(***************************************************************************)
\* the remote part: a failure of createRepository or addRemote is caught and reported
InitRemote(t, o, store, in) ==
  LET h == HostingCall("createRepository", store, in.apiOk) IN
  IF ~h.ok THEN Done(t \o h.t \o <<"report:remote-failed">>)
  ELSE IF ~o.local THEN Done(t \o h.t \o <<"ok:remote-created">>)
  ELSE IF "git.addRemote" \in in.fail
  THEN Done(t \o h.t \o <<"git.isRepository", "git.addRemote", "throw:git.addRemote", "report:remote-failed">>)
  ELSE Done(t \o h.t \o <<"git.isRepository", "git.addRemote", "ok:remote-created">>)

InitCmd(o, repo, store, in) ==
  LET t0 == IF o.name = "" THEN <<"prompt.input:name">> ELSE <<>>
      t1 == IF ~o.local THEN t0
            ELSE IF repo THEN t0 \o <<"git.isRepository", "warn:repository-exists">>
            ELSE t0 \o <<"git.isRepository", "git.init">>
  IN IF o.local /\ ~repo /\ "git.init" \in in.fail
     THEN Exit1(t1 \o <<"throw:git.init", "report:error">>)
     ELSE IF o.remote THEN InitRemote(t1, o, store, in)
     ELSE Done(t1 \o <<"ok:initialized">>)

(***************************************************************************)
(* branch                                                                  *)
(***************************************************************************)
\* the handler reads options.force_delete; the option -D, --force-delete is stored
\* by the argument parser under forceDelete, so the handler reads undefined
OptForceDelete(o) == FALSE

BranchCreate(t, o, in) ==
  IF "git.getCurrentBranch" \in in.fail
  THEN Exit1(t \o <<"git.getCurrentBranch", "throw:git.getCurrentBranch", "report:error">>)
  ELSE IF "git.createBranch" \in in.fail
  THEN Exit1(t \o <<"git.getCurrentBranch", "git.createBranch", "throw:git.createBranch", "report:create-failed">>)
  ELSE Done(t \o <<"git.getCurrentBranch", "git.createBranch", "ok:created">>)

\* a variant without the comparison of the name and the current branch
BranchDeleteAny(t, o, branch, in) ==
  IF "git.getCurrentBranch" \in in.fail
  THEN Exit1(t \o <<"git.getCurrentBranch", "throw:git.getCurrentBranch", "report:error">>)
  ELSE IF "delete" \notin in.yes
  THEN Done(t \o <<"git.getCurrentBranch", "prompt.confirm:delete", "answer:no", "report:cancelled">>)
  ELSE IF "git.deleteBranch" \in in.fail
  THEN Exit1(t \o <<"git.getCurrentBranch", "prompt.confirm:delete", "answer:yes", "git.deleteBranch",
                    "throw:git.deleteBranch", "report:delete-failed">>)
  ELSE Done(t \o <<"git.getCurrentBranch", "prompt.confirm:delete", "answer:yes", "git.deleteBranch",
                   "ok:deleted">>)

BranchDelete(t, o, branch, in) ==
  IF "git.getCurrentBranch" \in in.fail
  THEN Exit1(t \o <<"git.getCurrentBranch", "throw:git.getCurrentBranch", "report:error">>)
  ELSE IF o.name = branch  \* name === currentBranch
  THEN Exit1(t \o <<"git.getCurrentBranch", "report:delete-current">>)
  ELSE IF "delete" \notin in.yes
  THEN Done(t \o <<"git.getCurrentBranch", "prompt.confirm:delete", "answer:no", "report:cancelled">>)
  ELSE LET t1 == t \o <<"git.getCurrentBranch", "prompt.confirm:delete", "answer:yes", "git.deleteBranch">>
           t2 == IF OptForceDelete(o) THEN t1 \o <<"arg:force">> ELSE t1
       IN IF "git.deleteBranch" \in in.fail
          THEN Exit1(t2 \o <<"throw:git.deleteBranch", "report:delete-failed">>)
          ELSE Done(t2 \o <<"ok:deleted">>)

\* no -c and no -d: list the branches, or switch to the named one
BranchListOrCheckout(t, o, in) ==
  IF "git.getBranches" \in in.fail
  THEN Exit1(t \o <<"git.getBranches", "throw:git.getBranches", "report:fetch-failed">>)
  ELSE IF "git.getCurrentBranch" \in in.fail
  THEN Exit1(t \o <<"git.getBranches", "git.getCurrentBranch", "throw:git.getCurrentBranch",
                    "report:fetch-failed">>)
  ELSE LET t1 == t \o <<"git.getBranches", "git.getCurrentBranch">> IN
       IF o.name # <<>> /\ ~o.create /\ ~o.delete /\ ~OptForceDelete(o)
       THEN IF ~in.exists THEN Done(t1 \o <<"report:branch-not-found">>)
            ELSE IF "git.checkout" \in in.fail
            THEN Exit1(t1 \o <<"git.checkout", "throw:git.checkout", "report:fetch-failed">>)
            ELSE Done(t1 \o <<"git.checkout", "ok:switched">>)
       ELSE IF ~o.verbose THEN Done(t1 \o <<"ok:listed">>)
       ELSE IF "git.status" \in in.fail
       THEN Exit1(t1 \o <<"ok:listed", "git.status", "throw:git.status", "report:fetch-failed">>)
       ELSE Done(t1 \o <<"ok:listed", "git.status">>)

BranchCmd(o, repo, branch, in) ==
  IF ~repo THEN Exit1(<<"git.isRepository", "report:not-a-repository">>)
  ELSE IF o.create /\ o.name # <<>> THEN BranchCreate(<<"git.isRepository">>, o, in)
  ELSE IF (o.delete \/ OptForceDelete(o)) /\ o.name # <<>>
  THEN BranchDelete(<<"git.isRepository">>, o, branch, in)
  ELSE BranchListOrCheckout(<<"git.isRepository">>, o, in)

(***************************************************************************)
(* pull                                                                    *)
(***************************************************************************)
\* after a successful pull: the status, then the offer to restore the stash
PullRestore(t, in) ==
  IF "git.status" \in in.fail
  THEN Exit1(t \o <<"git.status", "throw:git.status", "report:pull-failed">>)
  ELSE IF ~(in.changed /\ ~in.conflicts) THEN Done(t \o <<"git.status">>)
  ELSE IF "restore" \notin in.yes
  THEN Done(t \o <<"git.status", "prompt.confirm:restore", "answer:no">>)
  ELSE IF "git.stashPop" \in in.fail
  THEN Done(t \o <<"git.status", "prompt.confirm:restore", "answer:yes", "git.stashPop",
                   "throw:git.stashPop", "report:restore-conflict">>)
  ELSE Done(t \o <<"git.status", "prompt.confirm:restore", "answer:yes", "git.stashPop", "ok:restored">>)

\* pull, or with --rebase fetch and merge
PullRun(t, o, in) ==
  IF o.rebase
  THEN IF "git.fetch" \in in.fail
       THEN Exit1(t \o <<"git.fetch", "throw:git.fetch", "report:pull-failed">>)
       ELSE IF "git.merge" \in in.fail
       THEN Exit1(t \o <<"git.fetch", "git.merge", "throw:git.merge", "report:pull-failed">>)
       ELSE PullRestore(t \o <<"git.fetch", "git.merge", "ok:pulled">>, in)
  ELSE IF "git.pull" \in in.fail
       THEN Exit1(t \o <<"git.pull", "throw:git.pull", "report:pull-failed">>)
       ELSE PullRestore(t \o <<"git.pull", "ok:pulled">>, in)

\* uncommitted changes: stash, commit first, discard or cancel
PullDirty(t, o, in) ==
  LET t1 == t \o <<"prompt.list:uncommitted", "answer:" \o in.choice>> IN
  IF in.choice = "stash"
  THEN IF "git.stash" \in in.fail
       THEN Exit1(t1 \o <<"git.stash", "throw:git.stash", "report:error">>)
       ELSE PullRun(t1 \o <<"git.stash", "ok:stashed">>, o, in)
  ELSE IF in.choice = "discard"
  THEN IF "git.reset" \in in.fail
       THEN Exit1(t1 \o <<"git.reset", "throw:git.reset", "report:error">>)
       ELSE PullRun(t1 \o <<"git.reset", "ok:discarded">>, o, in)
  ELSE IF in.choice = "commit" THEN Done(t1 \o <<"report:commit-first">>)
  ELSE Done(t1 \o <<"report:cancelled">>)

PullCmd(o, repo, in) ==
  IF ~repo THEN Exit1(<<"git.isRepository", "report:not-a-repository">>)
  ELSE IF "git.status" \in in.fail
  THEN Exit1(<<"git.isRepository", "git.status", "throw:git.status", "report:error">>)
  ELSE LET t == IF o.branch = "" THEN <<"git.isRepository", "git.status", "git.status">>
                ELSE <<"git.isRepository", "git.status">>
       IN IF in.changed \/ in.conflicts THEN PullDirty(t, o, in) ELSE PullRun(t, o, in)

(***************************************************************************)
(* push                                                                    *)
(***************************************************************************)
\* the handler reads options.set_upstream; the option -u, --set-upstream is stored
\* by the argument parser under setUpstream, so the handler reads undefined
OptSetUpstream(o) == FALSE

\* GitService.push: the arguments handed to the engine
PushArgs(force, setUpstream) ==
  (IF force THEN <<"arg:--force">> ELSE <<>>) \o (IF setUpstream THEN <<"arg:--set-upstream">> ELSE <<>>)

PushRun(t, o, in) ==
  LET t1 == t \o <<"git.push">> \o PushArgs(o.force, OptSetUpstream(o)) IN
  IF "git.push" \in in.fail THEN Exit1(t1 \o <<"throw:git.push", "report:push-failed">>)
  ELSE IF "git.status" \in in.fail
  THEN Exit1(t1 \o <<"ok:pushed", "git.status", "throw:git.status", "report:push-failed">>)
  ELSE Done(t1 \o <<"ok:pushed", "git.status">>)

\* a variant that pushes without asking
PushForceUnasked(t, o, in) == PushRun(t, o, in)

\* a variant that pushes whatever the answer to the confirmation
PushForceAnyway(t, o, in) ==
  IF ~o.force THEN PushRun(t, o, in)
  ELSE IF "force" \in in.yes
  THEN PushRun(t \o <<"prompt.confirm:force", "answer:yes">>, o, in)
  ELSE PushRun(t \o <<"prompt.confirm:force", "answer:no">>, o, in)

PushForce(t, o, in) ==
  IF ~o.force THEN PushRun(t, o, in)
  ELSE IF "force" \in in.yes
  THEN PushRun(t \o <<"prompt.confirm:force", "answer:yes">>, o, in)
  ELSE Done(t \o <<"prompt.confirm:force", "answer:no", "report:cancelled">>)

PushCmd(o, repo, url, in) ==
  IF ~repo THEN Exit1(<<"git.isRepository", "report:not-a-repository">>)
  ELSE IF o.branch = "" /\ "git.status" \in in.fail
  THEN Exit1(<<"git.isRepository", "git.status", "throw:git.status", "report:error">>)
  ELSE LET t == (IF o.branch = "" THEN <<"git.isRepository", "git.status">> ELSE <<"git.isRepository">>)
                  \o <<"git.getRemoteUrl">>
       IN IF GetRemoteUrl(url, in.fail) # NoRemote THEN PushForce(t, o, in)
          ELSE IF "add-remote" \notin in.yes
          THEN Done(t \o <<"prompt.confirm:add-remote", "answer:no", "report:cancelled">>)
          ELSE IF "git.addRemote" \in in.fail
          THEN Exit1(t \o <<"prompt.confirm:add-remote", "answer:yes", "prompt.input:url",
                            "git.addRemote", "throw:git.addRemote", "report:error">>)
          ELSE PushForce(t \o <<"prompt.confirm:add-remote", "answer:yes", "prompt.input:url",
                                "git.addRemote">>, o, in)

(***************************************************************************)
(* clone                                                                   *)
(***************************************************************************)
RECURSIVE SplitSlash(_)
\* String.prototype.split('/')
SplitSlash(s) ==
  LET cuts == {i \in 1..Len(s) : s[i] = "/"} IN
  IF cuts = {} THEN <<s>>
  ELSE LET i == CHOOSE m \in cuts : \A m2 \in cuts : m <= m2
       IN <<SubSeq(s, 1, i - 1)>> \o SplitSlash(SubSeq(s, i + 1, Len(s)))

\* url.startsWith('http') or url.startsWith('git@')
IsFullUrl(u) == u # <<>> /\ u[1] \in {"https://", "git@"}

\* const [owner, repo] = url.split('/'); both must be non-empty
ShortFormOk(u) == Len(SplitSlash(u)) >= 2 /\ SplitSlash(u)[1] # <<>> /\ SplitSlash(u)[2] # <<>>

\* the directory checked for existence: --directory, else the repository name of owner/repo
CloneTargetGiven(o) == o.directory # "" \/ ~IsFullUrl(o.url)

CloneRun(t, in) ==
  IF "git.clone" \in in.fail THEN Exit1(t \o <<"git.clone", "throw:git.clone", "report:clone-failed">>)
  ELSE IF "git.status" \in in.fail
  THEN Exit1(t \o <<"git.clone", "ok:cloned", "git.isRepository", "git.status", "throw:git.status",
                    "report:clone-failed">>)
  ELSE Done(t \o <<"git.clone", "ok:cloned", "git.isRepository", "git.status", "git.getRemoteUrl">>)

CloneCmd(o, in) ==
  IF ~IsFullUrl(o.url) /\ ~ShortFormOk(o.url) THEN Exit1(<<"throw:invalid-format", "report:error">>)
  ELSE IF ~(CloneTargetGiven(o) /\ in.exists) THEN CloneRun(<<>>, in)
  ELSE IF "overwrite" \in in.yes
  THEN CloneRun(<<"prompt.confirm:overwrite", "answer:yes">>, in)
  ELSE Done(<<"prompt.confirm:overwrite", "answer:no", "report:cancelled">>)

(***************************************************************************)
(* config <get|set|list|reset>                                             *)
(***************************************************************************)
IsDigit(c) == c \in {"0", "1", "2", "3", "4", "5", "6", "7", "8", "9"}
DigitVal(c) ==
  CASE c = "0" -> 0 [] c = "1" -> 1 [] c = "2" -> 2 [] c = "3" -> 3 [] c = "4" -> 4
    [] c = "5" -> 5 [] c = "6" -> 6 [] c = "7" -> 7 [] c = "8" -> 8 [] OTHER -> 9

RECURSIVE DecimalValue(_)
DecimalValue(s) ==
  IF s = <<>> THEN 0 ELSE DecimalValue(SubSeq(s, 1, Len(s) - 1)) * 10 + DigitVal(s[Len(s)])

\* !isNaN(Number(value)) && value !== '', for decimal integer literals: Number trims
\* white space, reads the empty string as 0 and takes one leading sign
Unsigned(s) == IF s # <<>> /\ s[1] \in {"-", "+"} THEN Tail(s) ELSE s
NumericLooking(v) ==
  /\ v # <<>>
  /\ \/ Trim(v) = <<>>
     \/ Unsigned(Trim(v)) # <<>> /\ \A i \in 1..Len(Unsigned(Trim(v))) : IsDigit(Unsigned(Trim(v))[i])
NumberOf(v) ==
  IF Trim(v) # <<>> /\ Trim(v)[1] = "-" THEN 0 - DecimalValue(Unsigned(Trim(v)))
  ELSE DecimalValue(Unsigned(Trim(v)))

\* setConfig: the typed value becomes a boolean, a number or stays a string
Coerce(v) ==
  IF v = S_true THEN Bool(TRUE)
  ELSE IF v = S_false THEN Bool(FALSE)
  ELSE IF NumericLooking(v) THEN Num(NumberOf(v))
  ELSE Str(v)

StartsWith(s, p) == Len(s) >= Len(p) /\ SubSeq(s, 1, Len(p)) = p
P_ghp == <<"g", "h", "p", "_">>
P_pat == <<"g", "i", "t", "h", "u", "b", "_", "p", "a", "t", "_">>

\* validateConfig calls githubToken.startsWith: a TypeError when the token is no string
ValidateThrows(store) == Truthy(store["githubToken"]) /\ store["githubToken"].type # "string"

ValidateErrors(store) ==
  (IF Truthy(store["githubToken"]) /\ store["githubToken"].type = "string"
      /\ ~StartsWith(store["githubToken"].s, P_ghp) /\ ~StartsWith(store["githubToken"].s, P_pat)
   THEN {"token"} ELSE {})
  \cup
  (IF Truthy(store["aiProvider"])
      /\ store["aiProvider"] \notin {Str(S_openai), Str(S_anthropic), Str(S_local)}
   THEN {"provider"} ELSE {})

\* ConfigManager.set
ConfigSet(file, key, value) == [file EXCEPT ![key] = value]

\* the document after config set / config reset
ConfigFileAfter(o, file, in) ==
  IF o.action = "set" /\ o.key # "" /\ o.value # <<>> THEN ConfigSet(file, o.key, Coerce(o.value))
  ELSE IF o.action = "reset" /\ "reset" \in in.yes THEN EmptyFile
  ELSE file

\* validation.errors.forEach: one line per warning
Warnings(errors) ==
  (IF "token" \in errors THEN <<"warn:token">> ELSE <<>>)
  \o (IF "provider" \in errors THEN <<"warn:provider">> ELSE <<>>)

\* setConfig: set, then validate
SetConfig(o, file) ==
  LET after == Store(ConfigSet(file, o.key, Coerce(o.value))) IN
  IF ValidateThrows(after) THEN Exit1(<<"config.set", "ok:set", "throw:TypeError", "report:error">>)
  ELSE Done(<<"config.set", "ok:set">> \o Warnings(ValidateErrors(after)))

\* getConfig: the value of the key, undefined shown as 'not set'
GetConfig(o, file) == [Done(<<"config.get">>) EXCEPT !.out.got = ConfigGet(file, o.key)]

Mask == <<"*", "*", "*">>
S_notSet == <<"N", "o", "t", " ", "s", "e", "t">>
SliceKeep == 4
\* a variant that cuts nothing off
SliceWhole(str, n) == str
\* String.prototype.slice(-n)
SliceLast(str, n) == SubSeq(str, (IF Len(str) > n THEN Len(str) - n + 1 ELSE 1), Len(str))
\* secret ? '***' + secret.slice(-4) : 'Not set'
Masked(v) == IF Truthy(v) THEN Mask \o SliceLast(v.s, SliceKeep) ELSE S_notSet

\* listConfig: slice(-4) of both secrets, then validate
ListThrows(store) ==
  \/ Truthy(store["githubToken"]) /\ store["githubToken"].type # "string"
  \/ Truthy(store["aiApiKey"]) /\ store["aiApiKey"].type # "string"
  \/ ValidateThrows(store)

ListConfig(file) ==
  IF ListThrows(Store(file)) THEN Exit1(<<"config.list", "throw:TypeError", "report:error">>)
  ELSE [Done(<<"config.list">> \o (IF ValidateErrors(Store(file)) = {} THEN <<"ok:valid">>
                                    ELSE Warnings(ValidateErrors(Store(file)))))
          EXCEPT !.out.token = Masked(Store(file)["githubToken"]),
                 !.out.apiKey = Masked(Store(file)["aiApiKey"])]

ResetConfig(in) ==
  IF "reset" \in in.yes THEN Done(<<"prompt.confirm:reset", "answer:yes", "config.clear">>)
  ELSE Done(<<"prompt.confirm:reset", "answer:no", "report:cancelled">>)

\* the switch over the action; the interactive setup action is not part of this model
ConfigCmd(o, file, in) ==
  IF o.action = "get"
  THEN IF o.key = "" THEN Exit1(<<"report:key-required">>) ELSE GetConfig(o, file)
  ELSE IF o.action = "set"
  THEN IF o.key = "" \/ o.value = <<>> THEN Exit1(<<"report:key-and-value-required">>)
       ELSE SetConfig(o, file)
  ELSE IF o.action = "list" THEN ListConfig(file)
  ELSE IF o.action = "reset" THEN ResetConfig(in)
  ELSE Exit1(<<"report:unknown-action">>)

(***************************************************************************)
(* The processes.  Each action runs one command line to its end against    *)
(* one behaviour of the outside world.                                     *)
(***************************************************************************)
NoCmd == [name |-> "none", o |-> [action |-> ""]]

\* an outside world in which nothing fails and every confirmation is declined
In0 ==
  [repo |-> TRUE, url |-> UrlHttpsGit, branch |-> S_feature, diff |-> <<"x">>, fail |-> {},
   yes |-> {}, httpOk |-> TRUE, apiOk |-> TRUE, empty |-> FALSE, picked |-> <<>>,
   exists |-> FALSE, changed |-> FALSE, conflicts |-> FALSE, choice |-> "cancel"]

NotRepo == [In0 EXCEPT !.repo = FALSE]

S_bug == <<"b", "u", "g">>
S_question == <<"q">>
S_alice == <<"a", "l">>

\* what the generation adapter can be given and can answer
AiWorlds(confirmName, ops) ==
  {[In0 EXCEPT !.diff = d, !.httpOk = h, !.yes = y, !.fail = f] :
     d \in Diffs, h \in BOOLEAN, y \in SUBSET {confirmName}, f \in SUBSET ops}

FailWorlds(ops) == {[In0 EXCEPT !.fail = f] : f \in SUBSET ops}

\* the remotes a pr or issue command can find
BadContexts ==
  {NotRepo, [In0 EXCEPT !.fail = {"git.getRemotes"}]}
  \cup {[In0 EXCEPT !.url = u] : u \in {NoRemote, UrlOtherHost, UrlDotted}}

Run(name, o, in, r) ==
  /\ phase' = "done"
  /\ cmd' = [name |-> name, o |-> o]
  /\ inp' = in
  /\ trace' = r.t
  /\ exitCode' = r.x
  /\ sent' = r.sent
  /\ out' = r.out

CommitOpts == [message : {"", "fix typo"}, all : BOOLEAN, ai : BOOLEAN]
CommitWorlds(o) ==
  {NotRepo} \cup
  (IF o.message = "" /\ o.ai THEN AiWorlds("use-message", {"git.add", "git.getDiff", "git.commit"})
   ELSE FailWorlds({"git.add", "git.commit"}))

Commit ==
  /\ phase = "idle"
  /\ \E o \in CommitOpts : \E in \in CommitWorlds(o) :
       Run("commit", o, in, CommitCmd(o, in.repo, Store(configFile), in)) /\ UNCHANGED configFile

AiOpts ==
  {[action |-> a, file |-> "", diff |-> FALSE] : a \in {"commit", "summary", "explain"}}
  \cup {[action |-> "review", file |-> f, diff |-> d] : f \in {"", "a.ts"}, d \in BOOLEAN}
AiWorldsOf(o) ==
  {NotRepo} \cup
  (IF o.action = "commit" THEN AiWorlds("use-message", {"git.getDiff", "git.add", "git.commit"})
   ELSE IF o.action = "review"
   THEN {[w EXCEPT !.empty = e] :
           w \in AiWorlds("apply", {"git.getDiff"}) \cup FailWorlds({"git.status"}), e \in BOOLEAN}
   ELSE IF o.action = "summary"
   THEN {[In0 EXCEPT !.httpOk = h, !.empty = e, !.fail = f] :
           h \in BOOLEAN, e \in BOOLEAN, f \in SUBSET {"git.getCommits"}}
   ELSE {In0})

Ai ==
  /\ phase = "idle"
  /\ \E o \in AiOpts : \E in \in AiWorldsOf(o) :
          Run("ai", o, in, AiCmd(o, in.repo, Store(configFile), in)) /\ UNCHANGED configFile

PrCreateOpts ==
  [action : {"create"}, title : {"", "Add x"}, body : {"", "Adds x"}, base : {<<>>, S_main, S_develop},
   draft : BOOLEAN, ai : BOOLEAN, open : BOOLEAN]
PrOtherOpts ==
  {[action |-> a, title |-> "", body |-> "", base |-> <<>>, draft |-> FALSE, ai |-> FALSE,
    open |-> FALSE] : a \in {"list", "merge", "show", "close"}}
PrOpts == {o \in PrCreateOpts : o.draft => (o.title # "" /\ ~o.ai /\ ~o.open)} \cup PrOtherOpts
PrWorlds(o) ==
  BadContexts \cup
  (IF o.action = "create"
   THEN {[w EXCEPT !.branch = b, !.apiOk = a] :
           w \in (IF o.body = "" /\ o.ai THEN AiWorlds("use-description", {"git.getDiff"}) ELSE {In0}),
           b \in {S_feature, S_main}, a \in BOOLEAN}
        \cup {[In0 EXCEPT !.fail = {"git.getCurrentBranch"}], [In0 EXCEPT !.url = UrlSsh]}
   ELSE {[In0 EXCEPT !.apiOk = a, !.empty = e, !.yes = y] :
           a \in BOOLEAN, e \in BOOLEAN, y \in SUBSET {"open-browser"}})

Pr ==
  /\ phase = "idle"
  /\ \E o \in PrOpts : \E in \in PrWorlds(o) :
          Run("pr", o, in, PrCmd(o, in.repo, in.url, in.branch, Store(configFile), in))
          /\ UNCHANGED configFile

IssueCreateOpts ==
  [action : {"create"}, title : {"", "Crash"}, body : {"", "It crashes"}, labels : {<<>>, S_bug},
   assignees : {<<>>, S_alice}, ai : BOOLEAN]
IssueOtherOpts ==
  {[action |-> a, title |-> "", body |-> "", labels |-> <<>>, assignees |-> <<>>, ai |-> FALSE] :
     a \in {"list", "show", "close"}}
IssueOpts == IssueCreateOpts \cup IssueOtherOpts
IssueWorlds(o) ==
  BadContexts \cup
  (IF o.action = "create"
   THEN {[In0 EXCEPT !.httpOk = h, !.apiOk = a, !.yes = y, !.picked = p] :
           h \in (IF o.title = "" /\ o.ai THEN BOOLEAN ELSE {TRUE}), a \in BOOLEAN,
           y \in SUBSET {"use-title", "add-labels", "open-browser"},
           p \in {<<>>, <<S_question>>}}
   ELSE {[In0 EXCEPT !.apiOk = a, !.empty = e, !.yes = y] :
           a \in BOOLEAN, e \in BOOLEAN, y \in SUBSET {"open-browser"}})

Issue ==
  /\ phase = "idle"
  /\ \E o \in IssueOpts : \E in \in IssueWorlds(o) :
          Run("issue", o, in, IssueCmd(o, in.repo, in.url, Store(configFile), in)) /\ UNCHANGED configFile

InitOpts == [name : {"", "widgets"}, local : BOOLEAN, remote : BOOLEAN]
InitWorlds ==
  {[In0 EXCEPT !.repo = r, !.apiOk = a, !.fail = f] :
     r \in BOOLEAN, a \in BOOLEAN, f \in SUBSET {"git.init", "git.addRemote"}}

InitRepo ==
  /\ phase = "idle"
  /\ \E o \in InitOpts : \E in \in InitWorlds :
          Run("init", o, in, InitCmd(o, in.repo, Store(configFile), in)) /\ UNCHANGED configFile

BranchOpts ==
  [name : {<<>>, S_feature, S_main}, create : BOOLEAN, delete : BOOLEAN, forceDelete : BOOLEAN,
   verbose : BOOLEAN]
BranchWorlds ==
  {NotRepo} \cup
  {[In0 EXCEPT !.exists = e, !.yes = y, !.fail = f] :
     e \in BOOLEAN, y \in SUBSET {"delete"},
     f \in {{}} \cup {{op} : op \in {"git.getCurrentBranch", "git.createBranch", "git.deleteBranch",
                                     "git.getBranches", "git.checkout", "git.status"}}}

Branch ==
  /\ phase = "idle"
  /\ \E o \in BranchOpts : \E in \in BranchWorlds :
          Run("branch", o, in, BranchCmd(o, in.repo, in.branch, in)) /\ UNCHANGED configFile

PullOpts == [branch : {"", "main"}, rebase : BOOLEAN]
PullWorlds ==
  {NotRepo} \cup
  {[In0 EXCEPT !.changed = c, !.conflicts = k, !.choice = ch, !.yes = y, !.fail = f] :
     c \in BOOLEAN, k \in BOOLEAN, ch \in {"stash", "commit", "discard", "cancel"},
     y \in SUBSET {"restore"},
     f \in {{}} \cup {{op} : op \in {"git.status", "git.stash", "git.reset", "git.pull", "git.fetch",
                                     "git.merge", "git.stashPop"}}}

Pull ==
  /\ phase = "idle"
  /\ \E o \in PullOpts : \E in \in PullWorlds :
          Run("pull", o, in, PullCmd(o, in.repo, in)) /\ UNCHANGED configFile

PushOpts == [branch : {"", "main"}, force : BOOLEAN, setUpstream : BOOLEAN]
PushWorlds ==
  {NotRepo} \cup
  {[In0 EXCEPT !.url = u, !.yes = y, !.fail = f] :
     u \in {NoRemote, UrlHttpsGit}, y \in SUBSET {"add-remote", "force"},
     f \in {{}} \cup {{op} : op \in {"git.status", "git.getRemotes", "git.addRemote", "git.push"}}}

Push ==
  /\ phase = "idle"
  /\ \E o \in PushOpts : \E in \in PushWorlds :
          Run("push", o, in, PushCmd(o, in.repo, in.url, in)) /\ UNCHANGED configFile

CloneOpts ==
  [url : {UrlHttpsGit, UrlSsh, <<"acme", "/", "widgets">>, <<"widgets">>, <<"acme", "/">>},
   directory : {"", "work"}]
CloneWorlds ==
  {[In0 EXCEPT !.exists = e, !.yes = y, !.fail = f] :
     e \in BOOLEAN, y \in SUBSET {"overwrite"}, f \in SUBSET {"git.clone", "git.status"}}

Clone ==
  /\ phase = "idle"
  /\ \E o \in CloneOpts : \E in \in CloneWorlds :
          Run("clone", o, in, CloneCmd(o, in)) /\ UNCHANGED configFile

\* the settings a user types at config set
ConfigSetOpts ==
  {[action |-> "set", key |-> "aiProvider", value |-> v] : v \in {S_anthropic, S_local, S_gemini, S_false}}
  \cup {[action |-> "set", key |-> "aiApiKey", value |-> S_apiKey],
        [action |-> "set", key |-> "githubToken", value |-> S_token],
        [action |-> "set", key |-> "defaultBranch", value |-> S_develop],
        [action |-> "set", key |-> "autoOpenPr", value |-> S_true],
        [action |-> "set", key |-> "autoOpenPr", value |-> <<>>],
        [action |-> "set", key |-> "", value |-> <<>>]}
ConfigOpts ==
  ConfigSetOpts
  \cup {[action |-> a, key |-> k, value |-> <<>>] : a \in {"get"}, k \in {"", "aiProvider"}}
  \cup {[action |-> a, key |-> "", value |-> <<>>] : a \in {"list", "reset", "show"}}
ConfigWorlds == {[In0 EXCEPT !.yes = y] : y \in SUBSET {"reset"}}

Config ==
  /\ phase = "idle"
  /\ \E o \in ConfigOpts : \E in \in ConfigWorlds :
       /\ Run("config", o, in, ConfigCmd(o, configFile, in))
       /\ configFile' = ConfigFileAfter(o, configFile, in)

\* the process is gone; the configuration document stays
Exit ==
  /\ phase = "done"
  /\ phase' = "idle"
  /\ cmd' = NoCmd
  /\ inp' = In0
  /\ trace' = <<>>
  /\ exitCode' = -1
  /\ sent' = NoSent
  /\ out' = NoOut
  /\ UNCHANGED configFile

Init ==
  /\ phase = "idle"
  /\ configFile = EmptyFile
  /\ cmd = NoCmd
  /\ inp = In0
  /\ trace = <<>>
  /\ exitCode = -1
  /\ sent = NoSent
  /\ out = NoOut

Next ==
  \/ Commit \/ Ai \/ Pr \/ Issue \/ InitRepo \/ Branch \/ Pull \/ Push \/ Clone \/ Config \/ Exit

Spec == Init /\ [][Next]_vars

(***************************************************************************)
(* Owner/repo extraction on its own: the remote is any URL of a bounded    *)
(* family, and the process only resolves it.                               *)
(***************************************************************************)
\* Longest path of a remote URL after the host and its separator, in lexemes.
MaxPathLen == 4

Schemes == {<<>>, <<"https://">>, <<"git@">>}
Hosts == {"github.com", "gitlab.com"}
Names == {"acme", "widgets", "my.repo"}
PathTokens == Names \cup {"/", ".git"}

Urls ==
  {s \o <<h, sep>> \o p :
     s \in Schemes \cup {<<"acme">>}, h \in Hosts, sep \in {"/", ":"}, p \in SeqsUpTo(PathTokens, MaxPathLen)}

\* lines 359-380 of the pr command, 21-42 of the issue command
ResolveRepository ==
  /\ phase = "idle"
  /\ LET c == RepoContext(inp.repo, inp.url, inp.fail) IN
       /\ trace' = c.t
       /\ exitCode' = IF c.ok THEN 0 ELSE 1
       /\ sent' = [NoSent EXCEPT !.owner = c.m.owner, !.repo = c.m.repo]
  /\ phase' = "done"
  /\ UNCHANGED <<configFile, cmd, inp, out>>

InitUrl ==
  /\ phase = "idle"
  /\ configFile = EmptyFile
  /\ cmd = NoCmd
  /\ inp \in {[In0 EXCEPT !.url = u] : u \in Urls}
  /\ trace = <<>>
  /\ exitCode = -1
  /\ sent = NoSent
  /\ out = NoOut

NextUrl == ResolveRepository

SpecUrl == InitUrl /\ [][NextUrl]_vars

(***************************************************************************)
(* Properties                                                              *)
(***************************************************************************)
GitWrites ==
  {"git.add", "git.commit", "git.push", "git.deleteBranch", "git.clone", "git.createBranch",
   "git.checkout", "git.stash", "git.stashPop", "git.reset", "git.pull", "git.fetch", "git.merge",
   "git.init", "git.addRemote"}
HostingCalls ==
  {"gh.createPullRequest", "gh.getPullRequests", "gh.createIssue", "gh.getIssues",
   "gh.createRepository"}
After(t, i) == {t[j] : j \in (i + 1)..Len(t)}
Declined(t, i) == i + 1 <= Len(t) /\ t[i + 1] = "answer:no"
\* every generation call of the trace is answered by the configuration error at once
AiFailsFast(t) == \A j \in 1..Len(t) : t[j] \in AiCalls => (j < Len(t) /\ t[j + 1] = "throw:ai.config")
NoAiHttp(t) == Range(t) \cap HttpAi = {}

\* the invocations that hand the diff to the generation adapter
DiffFed ==
  \/ cmd.name = "commit" /\ cmd.o.ai /\ cmd.o.message = ""
  \/ cmd.name = "ai" /\ cmd.o.action \in {"commit", "review"}
  \/ cmd.name = "pr" /\ cmd.o.action = "create" /\ cmd.o.ai /\ cmd.o.body = ""

\* C1: in commit --ai, ai commit, ai review and pr create --ai, a diff that is empty
\* or only white space ends the command with the 'no changes' outcome and no call
\* of the generation adapter.
C1_EmptyDiffNoGeneration ==
  (/\ phase = "done"
   /\ DiffFed
   /\ Has(trace, "git.getDiff") /\ ~Has(trace, "throw:git.getDiff")
   /\ Trim(inp.diff) = <<>>)
  => (Has(trace, "warn:no-changes") /\ Range(trace) \cap AiCalls = {})

ReportedFailures == {"report:remote-failed", "report:branch-not-found", "report:restore-conflict"}

\* C2: no command reports a failure (remote-repository creation in init, branch not
\* found in branch <name>, stash restore in pull) and then ends with exit code zero.
C2_ReportedFailureExitsNonZero ==
  (phase = "done" /\ Range(trace) \cap ReportedFailures # {}) => exitCode # 0

ConfirmPrompts ==
  {"prompt.confirm:use-message", "prompt.confirm:use-description", "prompt.confirm:use-title",
   "prompt.confirm:add-labels", "prompt.confirm:open-browser", "prompt.confirm:apply",
   "prompt.confirm:delete", "prompt.confirm:restore", "prompt.confirm:force",
   "prompt.confirm:add-remote", "prompt.confirm:overwrite", "prompt.confirm:reset"}

\* the confirmations that guard an operation
GuardPrompt(e) ==
  \/ e \in {"prompt.confirm:delete", "prompt.confirm:force", "prompt.confirm:add-remote",
            "prompt.confirm:overwrite", "prompt.confirm:reset"}
  \/ e = "prompt.confirm:use-message" /\ cmd.name = "ai"
\* the confirmations of a generated text, and the prompt that replaces the text
OverridePrompt(e) ==
  IF e = "prompt.confirm:use-message" /\ cmd.name = "commit" THEN "prompt.input:message"
  ELSE IF e = "prompt.confirm:use-description" THEN "prompt.editor:body"
  ELSE IF e = "prompt.confirm:use-title" THEN "prompt.input:title"
  ELSE "none"
\* the operation the command goes on to after the replacement
OverriddenStep(e) ==
  IF e = "prompt.confirm:use-message" THEN "git.commit"
  ELSE IF e = "prompt.confirm:use-description" THEN "gh.createPullRequest"
  ELSE "gh.createIssue"

\* C3 as stated: after any declined confirmation no stage, commit, push, branch
\* delete, clone or hosting call follows, and the process exits zero.
C3_DeclineStopsEveryCommand ==
  phase = "done" =>
    \A i \in 1..Len(trace) :
      (trace[i] \in ConfirmPrompts /\ Declined(trace, i))
      => (After(trace, i + 1) \cap (GitWrites \cup HostingCalls) = {} /\ exitCode = 0)

\* C3 amended: declining a confirmation that guards an operation (delete branch,
\* force push, add remote, overwrite the clone target, reset the configuration, use
\* the message in ai commit) ends the command there with exit code zero; declining a
\* generated text (commit --ai, pr create --ai, issue create --ai) asks for a
\* replacement and the command goes on to its commit or create call.
C3_DeclineGuardStopsOverrideContinues ==
  phase = "done" =>
    \A i \in 1..Len(trace) :
      Declined(trace, i) =>
        /\ GuardPrompt(trace[i]) =>
             /\ Len(trace) = i + 2
             /\ trace[i + 2] = "report:cancelled"
             /\ exitCode = 0
        /\ OverridePrompt(trace[i]) # "none" =>
             /\ i + 2 <= Len(trace)
             /\ trace[i + 2] = OverridePrompt(trace[i])
             /\ OverriddenStep(trace[i]) \in After(trace, i + 2)

C3_Witness ==
  /\ phase = "done"
  /\ cmd.name = "push"
  /\ Has(trace, "prompt.confirm:force")
  /\ Has(trace, "answer:no")

\* C4: in issue create and pr create a parameter given by a flag (title, body,
\* labels, assignees, base) is the value handed to the hosting adapter, and no
\* prompt is issued for it.
C4_FlagsReachTheHostingCall ==
  (phase = "done" /\ sent.kind \in {"pr", "issue"}) =>
    /\ cmd.o.title # "" => (sent.title = cmd.o.title /\ ~Has(trace, "prompt.input:title"))
    /\ cmd.o.body # "" => (sent.body = cmd.o.body /\ ~Has(trace, "prompt.input:body"))
    /\ sent.kind = "issue" =>
         /\ cmd.o.labels # <<>> =>
              (sent.labels = ParseList(cmd.o.labels) /\ ~Has(trace, "prompt.checkbox:labels"))
         /\ cmd.o.assignees # <<>> => sent.assignees = ParseList(cmd.o.assignees)
    /\ sent.kind = "pr" => (cmd.o.base # <<>> => sent.base = cmd.o.base)

\* C5: pr create without --base takes the persisted defaultBranch as the base, and
\* the created pull request is opened exactly when --open is given or autoOpenPr is
\* true.
C5_BaseFromPersistedDefault ==
  (phase = "done" /\ cmd.name = "pr" /\ cmd.o.action = "create" /\ sent.kind = "pr") =>
    /\ sent.base = (IF cmd.o.base # <<>> THEN cmd.o.base ELSE Store(configFile)["defaultBranch"].s)
    /\ Has(trace, "open") <=>
         (Has(trace, "ok:created") /\ (cmd.o.open \/ Truthy(Store(configFile)["autoOpenPr"])))

\* C6: with aiProvider = local every generation call fails with the configuration
\* error and no HTTP request is made, with or without a credential.
C6_LocalProviderFailsFast ==
  (phase = "done" /\ configFile["aiProvider"] = Str(S_local)) =>
    (AiFailsFast(trace) /\ NoAiHttp(trace))

C6_Witness ==
  /\ phase = "done"
  /\ configFile["aiProvider"] = Str(S_local)
  /\ Truthy(configFile["aiApiKey"])
  /\ Has(trace, "ai.review")
  /\ Has(trace, "throw:ai.config")

\* C7 as stated: an unconfigured selector, or one that is neither openai nor
\* anthropic, makes every generation call fail with the configuration error, without
\* a network attempt.
C7_UnconfiguredSelectorFailsFast ==
  (/\ phase = "done"
   /\ \/ configFile["aiProvider"] = Undef
      \/ configFile["aiProvider"] \notin {Str(S_openai), Str(S_anthropic)})
  => (AiFailsFast(trace) /\ NoAiHttp(trace))

\* C7 amended: a selector that is set to a value other than openai and anthropic
\* makes every generation call fail with the configuration error, without a network
\* attempt; a selector that is not set (or set to a value that counts as false)
\* selects the openai backend, which sends its request when a credential is present.
C7_UnrecognizedFailsUnsetIsOpenai ==
  phase = "done" =>
    /\ (/\ Truthy(configFile["aiProvider"])
        /\ configFile["aiProvider"] \notin {Str(S_openai), Str(S_anthropic)})
       => (AiFailsFast(trace) /\ NoAiHttp(trace))
    /\ (~Truthy(configFile["aiProvider"]) /\ Truthy(configFile["aiApiKey"]))
       => \A j \in 1..Len(trace) :
            trace[j] \in AiCalls => (j < Len(trace) /\ trace[j + 1] = "http.openai")

C7_Witness ==
  /\ phase = "done"
  /\ configFile["aiProvider"] = Undef
  /\ Truthy(configFile["aiApiKey"])
  /\ Has(trace, "ai.commit")
  /\ Has(trace, "http.openai")

\* C8: without aiApiKey every generation call, on the openai and on the anthropic
\* backend, fails with the configuration error before any HTTP request.
C8_NoCredentialNoRequest ==
  (phase = "done" /\ ~Truthy(configFile["aiApiKey"])) =>
    (AiFailsFast(trace) /\ NoAiHttp(trace))

C8_Witness ==
  /\ phase = "done"
  /\ configFile["aiProvider"] = Str(S_anthropic)
  /\ ~Truthy(configFile["aiApiKey"])
  /\ Has(trace, "ai.pr")
  /\ Has(trace, "throw:ai.config")

ContextReports == {"report:not-a-repository", "report:no-remote", "report:invalid-url"}
ContextHolds ==
  /\ inp.repo
  /\ GetRemoteUrl(inp.url, inp.fail) # NoRemote
  /\ ExtractOwnerRepo(GetRemoteUrl(inp.url, inp.fail)).ok

\* C9: in pr and issue the three checks (repository, remote, URL parses) have passed
\* before any hosting call, generation call or state-changing engine operation; when
\* one fails the command reports it, does nothing else and exits non-zero.
C9_ContextBeforeEffects ==
  (phase = "done" /\ cmd.name \in {"pr", "issue"}) =>
    /\ \A e \in HostingCalls \cup AiCalls \cup HttpAi \cup GitWrites \cup {"http.github", "open"} :
         Has(trace, e) => (ContextHolds /\ Precedes(trace, "ok:context", e))
    /\ ~ContextHolds =>
         /\ exitCode = 1
         /\ Range(trace) \cap ContextReports # {}
         /\ trace[Len(trace)] = "exit1"
         /\ sent = NoSent

C9_Witness ==
  /\ phase = "done"
  /\ cmd.name = "issue"
  /\ cmd.o.action = "create"
  /\ inp.url = UrlOtherHost
  /\ exitCode = 1

\* URLs of the form host[:/]owner/repo[.git], read on the lexemes
UrlBody(u) == IF u # <<>> /\ <<u[1]>> \in Schemes THEN Tail(u) ELSE u
StripGit(p) == IF p # <<>> /\ p[Len(p)] = ".git" THEN SubSeq(p, 1, Len(p) - 1) ELSE p
UrlPath(u) == StripGit(SubSeq(UrlBody(u), 3, Len(UrlBody(u))))
IsName(p) == p # <<>> /\ \A i \in 1..Len(p) : p[i] \in Names
FormSlash(u) == CHOOSE i \in 1..Len(UrlPath(u)) : UrlPath(u)[i] = "/"
FormOwner(u) == SubSeq(UrlPath(u), 1, FormSlash(u) - 1)
FormRepo(u) == SubSeq(UrlPath(u), FormSlash(u) + 1, Len(UrlPath(u)))
HasForm(u) ==
  /\ Len(UrlBody(u)) >= 5
  /\ UrlBody(u)[1] \in Hosts
  /\ UrlBody(u)[2] \in {"/", ":"}
  /\ Cardinality({i \in 1..Len(UrlPath(u)) : UrlPath(u)[i] = "/"}) = 1
  /\ IsName(FormOwner(u))
  /\ IsName(FormRepo(u))

\* C10: every URL of the form host[:/]owner/repo, with or without a final .git,
\* resolves to exactly (owner, repo); every other URL is rejected.
C10_ExtractionFollowsTheForm ==
  phase = "done" =>
    IF HasForm(inp.url)
    THEN Has(trace, "ok:context") /\ sent.owner = FormOwner(inp.url) /\ sent.repo = FormRepo(inp.url)
    ELSE Has(trace, "report:invalid-url")

\* C11: pr create on a current branch that is also the base branch exits non-zero
\* and never calls createPullRequest.
C11_HeadEqualsBaseFails ==
  (/\ phase = "done"
   /\ cmd.name = "pr" /\ cmd.o.action = "create"
   /\ Has(trace, "git.getCurrentBranch") /\ ~Has(trace, "throw:git.getCurrentBranch")
   /\ inp.branch = (IF cmd.o.base # <<>> THEN cmd.o.base ELSE S_main))
  => (exitCode # 0 /\ ~Has(trace, "gh.createPullRequest") /\ sent = NoSent)

C11_Witness ==
  /\ phase = "done"
  /\ cmd.name = "pr" /\ cmd.o.action = "create"
  /\ cmd.o.base = S_main
  /\ inp.branch = S_main
  /\ Has(trace, "report:pr-from-base")
  /\ exitCode = 1

(***************************************************************************)
(* The configuration commands on their own, over more keys and values      *)
(***************************************************************************)
S_badToken == <<"t", "o", "k", "e", "n">>
S_patToken == <<"g", "i", "t", "h", "u", "b", "_", "p", "a", "t", "_", "9">>
S_digits == <<"1", "2">>
S_blank == <<" ">>

WideKeys == {"githubToken", "aiApiKey", "aiProvider", "autoOpenPr"}
WideValues == {S_token, S_patToken, S_badToken, S_digits, S_blank, S_false, S_gemini}

ConfigOptsWide ==
  [action : {"set"}, key : WideKeys \cup {""}, value : WideValues \cup {<<>>}]
  \cup [action : {"get"}, key : WideKeys \cup {"", "editor"}, value : {<<>>}]
  \cup [action : {"list", "reset", "show"}, key : {""}, value : {<<>>}]

ConfigWide ==
  /\ phase = "idle"
  /\ \E o \in ConfigOptsWide : \E in \in ConfigWorlds :
       /\ Run("config", o, in, ConfigCmd(o, configFile, in))
       /\ configFile' = ConfigFileAfter(o, configFile, in)

NextConfig == ConfigWide \/ Exit

SpecConfig == Init /\ [][NextConfig]_vars

\* the coercion as the documentation words it: digits, with or without a sign, are a
\* number; true and false are booleans; every other string stays a string
LooksNumeric(v) == Unsigned(v) # <<>> /\ \A i \in 1..Len(Unsigned(v)) : IsDigit(Unsigned(v)[i])
Coerced(v) ==
  IF v = S_true THEN Bool(TRUE)
  ELSE IF v = S_false THEN Bool(FALSE)
  ELSE IF LooksNumeric(v) THEN Num(IF v[1] = "-" THEN 0 - DecimalValue(Unsigned(v)) ELSE DecimalValue(Unsigned(v)))
  ELSE Str(v)

\* C12: after config set k v with a non-empty v, config get k returns v coerced:
\* true/false as booleans, numeric-looking strings as numbers, every other string
\* as the string it is.
C12_SetThenGetIsCoerced ==
  (/\ phase = "done"
   /\ cmd.name = "config" /\ cmd.o.action = "set"
   /\ cmd.o.key # "" /\ cmd.o.value # <<>>)
  => ConfigGet(configFile, cmd.o.key) = Coerced(cmd.o.value)

\* a config set that passes the argument check
SetAccepted ==
  /\ phase = "done"
  /\ cmd.name = "config" /\ cmd.o.action = "set"
  /\ cmd.o.key # "" /\ cmd.o.value # <<>>

\* the two cases in which a warning is due
TokenWarningDue(file) ==
  /\ file["githubToken"] # Undef
  /\ ~(/\ file["githubToken"].type = "string"
       /\ \/ StartsWith(file["githubToken"].s, P_ghp)
          \/ StartsWith(file["githubToken"].s, P_pat))
ProviderWarningDue(file) ==
  /\ file["aiProvider"] # Undef
  /\ file["aiProvider"] \notin {Str(S_openai), Str(S_anthropic), Str(S_local)}

\* C13: validateConfig, run after config set, warns exactly when the hosting
\* credential is present and starts with neither ghp_ nor github_pat_, and when
\* aiProvider is present and none of openai, anthropic, local.
C13_WarningsExactlyWhenDue ==
  SetAccepted =>
    /\ Has(trace, "warn:token") <=> TokenWarningDue(configFile)
    /\ Has(trace, "warn:provider") <=> ProviderWarningDue(configFile)

\* C14: every accepted config set persists its value and ends without an error
\* exit, and so does every later config list.
C14_ValidationNeverFatal ==
  /\ SetAccepted =>
       /\ exitCode = 0
       /\ configFile[cmd.o.key] = Coerce(cmd.o.value)
  /\ (phase = "done" /\ cmd.name = "config" /\ cmd.o.action = "list") => exitCode = 0

\* shown is the mask and then no more than the last four characters of the secret
MaskedTail(shown, secret) ==
  \E n \in 0..4 :
    /\ n <= Len(secret)
    /\ shown = Mask \o SubSeq(secret, Len(secret) - n + 1, Len(secret))

\* C15: config list shows of githubToken and aiApiKey the mask followed by at most
\* the last 4 characters of the secret, and nothing else of it.
C15_ListMasksSecrets ==
  (phase = "done" /\ cmd.name = "config" /\ cmd.o.action = "list") =>
    /\ \/ out.token \in {<<>>, S_notSet}
       \/ configFile["githubToken"].type = "string"
          /\ MaskedTail(out.token, configFile["githubToken"].s)
    /\ \/ out.apiKey \in {<<>>, S_notSet}
       \/ configFile["aiApiKey"].type = "string"
          /\ MaskedTail(out.apiKey, configFile["aiApiKey"].s)

C15_Witness ==
  /\ phase = "done"
  /\ cmd.name = "config" /\ cmd.o.action = "list"
  /\ configFile["githubToken"] = Str(S_token)
  /\ configFile["aiApiKey"] = Str(S_badToken)
  /\ out.token = <<"*", "*", "*", "a", "1", "b", "2">>
  /\ out.apiKey = <<"*", "*", "*", "o", "k", "e", "n">>

(***************************************************************************)
(* GitService.status on its own: the engine reports a working tree, the    *)
(* service maps the report to its own status record.                       *)
(***************************************************************************)
\* Largest number of commits ahead of or behind the tracked branch.
MaxAhead == 1

\* the paths of the tree, in the order the engine lists them
TreePaths == <<"a.ts", "b.ts">>
\* index and working-tree state of a path, as the porcelain status prints it
TreeCodes == {"  ", "A ", " M", "M ", "MM", "AM", "UU", "??"}

\* the paths whose code is in codes, in listing order
PathsWith(tree, codes) ==
  LET F[i \in 0..Len(TreePaths)] ==
        IF i = 0 THEN <<>>
        ELSE IF tree[TreePaths[i]] \in codes THEN Append(F[i - 1], TreePaths[i]) ELSE F[i - 1]
  IN F[Len(TreePaths)]

\* this.git.status(): the engine's lists; a path staged as new is in created and in
\* staged, a staged path modified again is in staged and in modified
EngineStatus(tree, ahead, behind) ==
  [created |-> PathsWith(tree, {"A ", "AM"}),
   staged |-> PathsWith(tree, {"A ", "AM", "M ", "MM"}),
   modified |-> PathsWith(tree, {" M", "M ", "MM", "AM"}),
   conflicted |-> PathsWith(tree, {"UU"}),
   ahead |-> ahead, behind |-> behind]

\* GitService.status
Status(e) ==
  [NoOut EXCEPT !.staged = e.created \o e.staged,
                !.changed = e.modified,
                !.conflicts = e.conflicted,
                !.ahead = e.ahead,
                !.behind = e.behind]

CallStatus ==
  /\ phase = "idle"
  /\ phase' = "done"
  /\ trace' = <<"git.status">>
  /\ exitCode' = 0
  /\ out' = Status(EngineStatus(inp.tree, inp.ahead, inp.behind))
  /\ UNCHANGED <<configFile, cmd, inp, sent>>

InitStatus ==
  /\ phase = "idle"
  /\ configFile = EmptyFile
  /\ cmd = NoCmd
  /\ inp \in [tree : [Range(TreePaths) -> TreeCodes], ahead : 0..MaxAhead, behind : 0..MaxAhead]
  /\ trace = <<>>
  /\ exitCode = -1
  /\ sent = NoSent
  /\ out = NoOut

NextStatus == CallStatus

SpecStatus == InitStatus /\ [][NextStatus]_vars

NoDuplicates(q) == \A i, j \in 1..Len(q) : q[i] = q[j] => i = j

\* C16: staged is the union of the newly added and the staged paths without
\* duplicates; one staged new file and one modified, unstaged file give exactly one
\* staged path, one modified path and no conflicted path.
C16_StagedHasNoDuplicates ==
  phase = "done" =>
    /\ NoDuplicates(out.staged)
    /\ (inp.tree["a.ts"] = "A " /\ inp.tree["b.ts"] = " M")
       => (Len(out.staged) = 1 /\ Len(out.changed) = 1 /\ Len(out.conflicts) = 0)

\* C17: ahead and behind are not negative, and no path is in more than one of
\* staged, changed and conflicts.
C17_ListsAreDisjoint ==
  phase = "done" =>
    /\ out.ahead >= 0 /\ out.behind >= 0
    /\ Range(out.staged) \cap Range(out.changed) = {}
    /\ Range(out.staged) \cap Range(out.conflicts) = {}
    /\ Range(out.changed) \cap Range(out.conflicts) = {}

C19_ForceDeleteDeletes ==
  (/\ phase = "done"
   /\ cmd.name = "branch"
   /\ cmd.o.forceDelete /\ ~cmd.o.create
   /\ cmd.o.name # <<>> /\ cmd.o.name # inp.branch
   /\ inp.repo /\ inp.fail = {})
  => /\ ~Has(trace, "git.checkout")
     /\ "delete" \in inp.yes => (Has(trace, "git.deleteBranch") /\ Has(trace, "arg:force"))

\* C20: push with -u/--set-upstream hands --set-upstream to the engine's push, and
\* push with a confirmed --force hands it --force.
C20_SetUpstreamReachesTheEngine ==
  (phase = "done" /\ cmd.name = "push" /\ Has(trace, "git.push")) =>
    /\ cmd.o.setUpstream => Has(trace, "arg:--set-upstream")
    /\ cmd.o.force => Has(trace, "arg:--force")


(***************************************************************************)
(* The engine's stash, as pull drives it.  An engine state is the set of   *)
(* changes in the working tree and the stack of stash entries; the calls   *)
(* of a trace are applied to it in order, a call followed by its throw     *)
(* being a call that failed.                                               *)
(***************************************************************************)
Work == "work"

\* the working tree pull finds: the uncommitted changes that status reported
EngineStart(in) ==
  [tree |-> IF in.changed \/ in.conflicts THEN {Work} ELSE {}, stash |-> <<>>]

\* git stash: the changes leave the tree and become the top stash entry
GitStash(e, ok) ==
  IF ~ok \/ e.tree = {} THEN e ELSE [tree |-> {}, stash |-> <<e.tree>> \o e.stash]

\* a variant of pop that drops the entry even when it did not apply
GitStashPopDropping(e, ok) ==
  IF e.stash = <<>> THEN e
  ELSE IF ok THEN [tree |-> e.tree \cup Head(e.stash), stash |-> Tail(e.stash)]
  ELSE [tree |-> e.tree, stash |-> Tail(e.stash)]

\* git stash pop: the top entry is applied and dropped; when it does not apply the
\* engine fails and keeps the entry
GitStashPop(e, ok) ==
  IF e.stash = <<>> THEN e
  ELSE IF ok THEN [tree |-> e.tree \cup Head(e.stash), stash |-> Tail(e.stash)]
  ELSE e

\* git reset --hard HEAD: the changes of the tree are gone
GitReset(e, ok) == IF ok THEN [e EXCEPT !.tree = {}] ELSE e

CallFailed(t, i) == i < Len(t) /\ t[i + 1] = "throw:" \o t[i]

RECURSIVE EngineAfter(_, _, _)
EngineAfter(e, t, i) ==
  IF i > Len(t) THEN e
  ELSE LET ok == ~CallFailed(t, i)
           e1 == IF t[i] = "git.stash" THEN GitStash(e, ok)
                 ELSE IF t[i] = "git.stashPop" THEN GitStashPop(e, ok)
                 ELSE IF t[i] = "git.reset" THEN GitReset(e, ok)
                 ELSE e
       IN EngineAfter(e1, t, i + 1)

Stashed(e) == UNION {e.stash[i] : i \in 1..Len(e.stash)}

\* C21: in every pull in which the user chose to stash and the stash was made, whatever
\* happens afterwards (pull fails, restore declined, pop conflicts), the stashed changes
\* are at the end either in the working tree or still in a stash entry.
C21_StashedChangesNeverLost ==
  (phase = "done" /\ cmd.name = "pull" /\ inp.choice = "stash" /\ Has(trace, "ok:stashed"))
  => LET e == EngineAfter(EngineStart(inp), trace, 1)
     IN Work \in e.tree \/ Work \in Stashed(e)

C21_Witness ==
  /\ phase = "done"
  /\ cmd.name = "pull"
  /\ inp.choice = "stash"
  /\ Has(trace, "ok:stashed")
  /\ Has(trace, "throw:git.stashPop")
  /\ Work \in Stashed(EngineAfter(EngineStart(inp), trace, 1))


(***************************************************************************)
(* The reply of a backend and what parseResponse makes of it.  A reply is  *)
(* a sequence of characters; the payload may be missing.  Confidence is    *)
(* in hundredths.                                                          *)
(***************************************************************************)
MaxTextLen == 4
Quote == "'"
TextChars == {"-", "*", " ", LF, "a", Quote}
Texts == SeqsUpTo(TextChars, MaxTextLen)
Payloads == {[present |-> FALSE, text |-> <<>>]} \cup {[present |-> TRUE, text |-> s] : s \in Texts}

\* response.data.choices[0]?.message?.content || '' and response.data.content[0]?.text || ''
ResponseText(payload) == IF payload.present THEN payload.text ELSE <<>>

RECURSIVE SplitLines(_)
\* String.prototype.split('\n')
SplitLines(s) ==
  IF \E i \in 1..Len(s) : s[i] = LF
  THEN LET i == CHOOSE i \in 1..Len(s) : s[i] = LF /\ \A k \in 1..(i - 1) : s[k] # LF
       IN <<SubSeq(s, 1, i - 1)>> \o SplitLines(SubSeq(s, i + 1, Len(s)))
  ELSE <<s>>

IsMarker(c) == c \in {"-", "*"}

\* line.trim().startsWith('-') || line.trim().startsWith('*')
BulletLine(line) == Trim(line) # <<>> /\ IsMarker(Trim(line)[1])

\* line.replace(/^[-*]\s*/, '').trim()
StripMarker(line) ==
  Trim(IF line # <<>> /\ IsMarker(line[1]) THEN TrimLeft(Tail(line)) ELSE line)

\* s.replace(/^["']|["']$/g, '')
StripQuotes(s) ==
  LET s1 == IF s # <<>> /\ s[1] = Quote THEN Tail(s) ELSE s
  IN IF s1 # <<>> /\ s1[Len(s1)] = Quote THEN SubSeq(s1, 1, Len(s1) - 1) ELSE s1

NoSuggestions == [defined |-> FALSE, list |-> <<>>]

\* a variant that works on the reply as it came, without trimming it first
ParseResponseUntrimmed(content, type) ==
  CASE type = "commit" -> [content |-> SplitLines(content)[1], confidence |-> 80, suggestions |-> NoSuggestions]
    [] type = "issue" ->
         [content |-> StripQuotes(SplitLines(content)[1]), confidence |-> 80, suggestions |-> NoSuggestions]
    [] OTHER -> [content |-> content, confidence |-> 85, suggestions |-> NoSuggestions]

ParseResponse(content, type) ==
  LET cleaned == Trim(content) IN
  CASE type = "commit" ->
         [content |-> SplitLines(cleaned)[1], confidence |-> 80, suggestions |-> NoSuggestions]
    [] type = "pr" -> [content |-> cleaned, confidence |-> 85, suggestions |-> NoSuggestions]
    [] type = "review" ->
         LET bullets == SelectSeq(SplitLines(cleaned), BulletLine)
             suggestions == [i \in 1..Len(bullets) |-> StripMarker(bullets[i])]
         IN [content |-> cleaned, confidence |-> 75,
             suggestions |-> IF Len(suggestions) > 0
                             THEN [defined |-> TRUE, list |-> suggestions]
                             ELSE NoSuggestions]
    [] type = "issue" ->
         [content |-> StripQuotes(SplitLines(cleaned)[1]), confidence |-> 80,
          suggestions |-> NoSuggestions]
    [] OTHER -> [content |-> cleaned, confidence |-> 70, suggestions |-> NoSuggestions]

\* generateWithOpenAI / generateWithAnthropic after the request has been answered
Receive ==
  /\ phase = "idle"
  /\ phase' = "done"
  /\ trace' = <<"ai." \o inp.type, "http." \o inp.backend>>
  /\ exitCode' = 0
  /\ out' = ParseResponse(ResponseText(inp.payload), inp.type)
  /\ UNCHANGED <<configFile, cmd, inp, sent>>

InitParse ==
  /\ phase = "idle"
  /\ configFile = EmptyFile
  /\ cmd = NoCmd
  /\ inp \in [payload : Payloads, type : Intents, backend : {"openai", "anthropic"}]
  /\ trace = <<>>
  /\ exitCode = -1
  /\ sent = NoSent
  /\ out = NoOut

NextParse == Receive

SpecParse == InitParse /\ [][NextParse]_vars

\* what the lines of a text that begin with a marker, after optional white space, are
\* once the white space and the marker are stripped
MarkedLines(text) ==
  LET lines == SelectSeq(SplitLines(text), BulletLine)
  IN [i \in 1..Len(lines) |-> Trim(Tail(Trim(lines[i])))]

\* C22: for the intent review the suggestions are, in response order, exactly the lines
\* of the reply that begin with a marker - or * after optional leading white space, each
\* with its marker stripped, and no suggestion still starts with a marker.
C22_SuggestionsAreTheStrippedBullets ==
  (phase = "done" /\ inp.type = "review")
  => /\ out.suggestions.list = MarkedLines(ResponseText(inp.payload))
     /\ \A i \in 1..Len(out.suggestions.list) :
          out.suggestions.list[i] = <<>> \/ ~IsMarker(out.suggestions.list[i][1])

\* C23: every result of a successful generation has a non-empty primary text, also when
\* the payload is empty or missing, and a confidence between 0 and 1.
C23_ContentNeverEmpty ==
  phase = "done" => (out.content # <<>> /\ out.confidence \in 0..100)


\* the contiguous parts of a text
Parts(s) == {SubSeq(s, i, j) : i \in 1..(Len(s) + 1), j \in 0..Len(s)}

\* c is s without the white space at its two ends
IsTrimOf(c, s) ==
  /\ \E i \in 1..(Len(s) + 1) : \E j \in 0..Len(s) :
       /\ c = SubSeq(s, i, j)
       /\ \A k \in 1..(i - 1) : IsSpace(s[k])
       /\ \A k \in (j + 1)..Len(s) : IsSpace(s[k])
  /\ c # <<>> => (~IsSpace(c[1]) /\ ~IsSpace(c[Len(c)]))

\* c is s up to its first line feed
IsFirstLineOf(c, s) ==
  /\ LF \notin Range(c)
  /\ c = s \/ (Len(s) > Len(c) /\ SubSeq(s, 1, Len(c) + 1) = c \o <<LF>>)

\* c is s without the quote at its start and the quote at the end of what remains
IsUnquoted(c, s) ==
  \E a \in {<<>>, <<Quote>>} : \E b \in {<<>>, <<Quote>>} :
    /\ s = a \o c \o b
    /\ a = <<>> => (s = <<>> \/ s[1] # Quote)
    /\ b = <<>> => (c = <<>> \/ c[Len(c)] # Quote)

\* C24 as stated: for the intent pr the primary text is the reply character for
\* character, white space at the ends included; commit and issue keep one line.
C24_PrPassesThroughUnmodified ==
  phase = "done" =>
    /\ inp.type = "pr" => out.content = ResponseText(inp.payload)
    /\ inp.type \in {"commit", "issue"} => LF \notin Range(out.content)

\* C24 amended: for the intent pr the primary text is the reply without the white space
\* at its two ends and otherwise character for character; commit keeps the first line
\* of the trimmed reply, issue that line without a quote at either end.
C24_PrIsTheTrimmedReply ==
  phase = "done" =>
    LET raw == ResponseText(inp.payload) IN
    /\ inp.type = "pr" => IsTrimOf(out.content, raw)
    /\ inp.type = "commit" =>
         \E c \in Parts(raw) : IsTrimOf(c, raw) /\ IsFirstLineOf(out.content, c)
    /\ inp.type = "issue" =>
         \E c \in Parts(raw) : \E l \in Parts(c) :
           IsTrimOf(c, raw) /\ IsFirstLineOf(l, c) /\ IsUnquoted(out.content, l)

C24_Witness ==
  /\ phase = "done"
  /\ inp.type = "pr"
  /\ inp.payload.present
  /\ inp.payload.text = <<" ", "a", LF, "a">>
  /\ out.content = <<"a", LF, "a">>


\* the engine call an adapter operation of the trace makes
EngineCallOf(op) == IF op = "git.getRemoteUrl" THEN "git.getRemotes" ELSE op

\* C25: no operation of the version-control adapter other than isRepository swallows an
\* engine failure: a call whose engine call fails throws, and is not made again.
C25_NoEngineFailureSwallowed ==
  phase = "done" =>
    \A i \in 1..Len(trace) :
      (trace[i] # "git.isRepository" /\ EngineCallOf(trace[i]) \in inp.fail)
      => /\ ("throw:" \o trace[i]) \in After(trace, i)
         /\ trace[i] \notin After(trace, i)


\* C26: commit --ai without -m calls the adapters in the order get diff, generation,
\* confirmation, stage, commit: whatever the options, nothing is staged before the diff
\* is read and a stage step comes before the commit.
C26_CommitAiFixedOrder ==
  (phase = "done" /\ cmd.name = "commit" /\ cmd.o.ai /\ cmd.o.message = "")
  => /\ Precedes(trace, "git.getDiff", "git.add")
     /\ Precedes(trace, "git.getDiff", "ai.commit")
     /\ Precedes(trace, "ai.commit", "prompt.confirm:use-message")
     /\ Precedes(trace, "prompt.confirm:use-message", "git.add")
     /\ Precedes(trace, "git.add", "git.commit")


(***************************************************************************)
(* The hosting adapter inside one process: its octokit field, the hosting  *)
(* calls made one after another, and the token changing in between.        *)
(***************************************************************************)
MaxEvents == 6
NoClient == [octokit |-> Undef]

\* a variant of getClient that builds a client at every call
GetClientFresh(octokit, store) ==
  IF ~Truthy(store["githubToken"])
  THEN [ok |-> FALSE, octokit |-> octokit, t |-> <<"throw:gh.config">>]
  ELSE [ok |-> TRUE, octokit |-> store["githubToken"], t |-> <<"client.new">>]

\* getClient: the client of the field, or a new one from the configured token
GetClient(octokit, store) ==
  IF octokit # Undef THEN [ok |-> TRUE, octokit |-> octokit, t |-> <<>>]
  ELSE IF ~Truthy(store["githubToken"])
  THEN [ok |-> FALSE, octokit |-> octokit, t |-> <<"throw:gh.config">>]
  ELSE [ok |-> TRUE, octokit |-> store["githubToken"], t |-> <<"client.new">>]

\* one operation of the adapter: getClient, then the request
ClientCallEvents(op, client, apiOk) ==
  <<op>> \o client.t
  \o (IF ~client.ok THEN <<>> ELSE IF apiOk THEN <<"http.github">> ELSE <<"http.github", "throw:gh.api">>)

ClientCall ==
  /\ phase = "running"
  /\ Len(trace) < MaxEvents
  /\ \E op \in HostingCalls : \E apiOk \in BOOLEAN :
       LET client == GetClient(out.octokit, Store(configFile)) IN
       /\ out' = [octokit |-> client.octokit]
       /\ trace' = trace \o ClientCallEvents(op, client, apiOk)
  /\ UNCHANGED <<phase, configFile, cmd, inp, exitCode, sent>>

\* configManager.set('githubToken', v) or configManager.delete('githubToken')
TokenChange ==
  /\ phase = "running"
  /\ Len(trace) < MaxEvents
  /\ \E v \in {Undef, Str(S_token), Str(S_patToken)} :
       /\ v # configFile["githubToken"]
       /\ configFile' = [configFile EXCEPT !["githubToken"] = v]
  /\ trace' = trace \o <<"config.set">>
  /\ UNCHANGED <<phase, cmd, inp, exitCode, sent, out>>

InitClient ==
  /\ phase = "running"
  /\ configFile \in {EmptyFile, [EmptyFile EXCEPT !["githubToken"] = Str(S_token)]}
  /\ cmd = NoCmd
  /\ inp = In0
  /\ trace = <<>>
  /\ exitCode = -1
  /\ sent = NoSent
  /\ out = NoClient

NextClient == ClientCall \/ TokenChange

SpecClient == InitClient /\ [][NextClient]_vars

Count(t, e) == Cardinality({i \in 1..Len(t) : t[i] = e})
Added == SubSeq(trace', Len(trace) + 1, Len(trace'))
IsCall == Len(trace') > Len(trace) /\ trace'[Len(trace) + 1] \in HostingCalls

\* C27: the client is built at most once in a process, at the first hosting call made
\* while a token is configured, and every later call uses that same client; a call made
\* while no token is configured and no client exists fails, builds no client and sends
\* no request.
C27_ClientBuiltLazilyAndOnce ==
  [][IsCall =>
       /\ Count(trace', "client.new") <= 1
       /\ (out.octokit # Undef) =>
            (out'.octokit = out.octokit /\ ~Has(Added, "client.new") /\ Has(Added, "http.github"))
       /\ (out.octokit = Undef /\ Truthy(configFile["githubToken"])) =>
            (out'.octokit = configFile["githubToken"] /\ Has(Added, "client.new")
             /\ Has(Added, "http.github"))
       /\ (out.octokit = Undef /\ ~Truthy(configFile["githubToken"])) =>
            (out'.octokit = Undef /\ Added = <<trace'[Len(trace) + 1], "throw:gh.config">>)
    ]_vars

\* a call fails for want of a token, the token is set, and a later call builds the
\* client and sends its request
C27_Witness ==
  /\ phase = "running"
  /\ Len(trace) >= 6
  /\ trace[2] = "throw:gh.config"
  /\ trace[3] = "config.set"
  /\ trace[5] = "client.new"
  /\ trace[6] = "http.github"
  /\ out.octokit # Undef


(***************************************************************************)
(* Two processes running config set at the same time.  The store's set     *)
(* reads the document from the file, changes one key and writes the whole  *)
(* document back; nothing locks the file between the two steps.            *)
(***************************************************************************)
Procs == {"p1", "p2"}
RaceKeys == {"githubToken", "aiApiKey", "aiProvider"}
RaceValues == {S_anthropic, S_true}

\* a variant that changes the key in the document as it is in the file at the write
WrittenMerged(file, local, key, value) == ConfigSet(file, key, value)

\* the document a set writes: the one it read, with the key changed
WrittenStore(file, local, key, value) == ConfigSet(local, key, value)

RaceRead(p) ==
  /\ phase = "running"
  /\ out[p].pc = "start"
  /\ out' = [out EXCEPT ![p] = [pc |-> "read", local |-> configFile]]
  /\ trace' = trace \o <<p \o ".read">>
  /\ UNCHANGED <<phase, configFile, cmd, inp, exitCode, sent>>

RaceWrite(p) ==
  /\ phase = "running"
  /\ out[p].pc = "read"
  /\ configFile' = WrittenStore(configFile, out[p].local, inp.set[p].key, Coerce(inp.set[p].value))
  /\ out' = [out EXCEPT ![p].pc = "done"]
  /\ trace' = trace \o <<p \o ".write">>
  /\ UNCHANGED <<phase, cmd, inp, exitCode, sent>>

InitRace ==
  /\ phase = "running"
  /\ configFile \in {EmptyFile, [EmptyFile EXCEPT !["aiProvider"] = Str(S_local)]}
  /\ cmd = NoCmd
  /\ \E s \in [Procs -> [key : RaceKeys, value : RaceValues]] :
       /\ s["p1"].key # s["p2"].key
       /\ inp = [file0 |-> configFile, set |-> s]
  /\ trace = <<>>
  /\ exitCode = -1
  /\ sent = NoSent
  /\ out = [p \in Procs |-> [pc |-> "start", local |-> EmptyFile]]

NextRace == \E p \in Procs : RaceRead(p) \/ RaceWrite(p)

SpecRace == InitRace /\ [][NextRace]_vars

BothDone == \A p \in Procs : out[p].pc = "done"
LastWriter == CHOOSE p \in Procs : trace[Len(trace)] = p \o ".write"

\* C28: when two processes have run config set on different keys, the file is exactly
\* the document the later writer wrote, that is the document it read with its own key
\* changed, and every value in it was in the file at the start or was written by one
\* of the two.
C28_LastWriteWins ==
  (phase = "running" /\ BothDone) =>
    /\ configFile = ConfigSet(out[LastWriter].local, inp.set[LastWriter].key,
                              Coerce(inp.set[LastWriter].value))
    /\ \A k \in Keys :
         \/ configFile[k] = inp.file0[k]
         \/ \E q \in Procs : inp.set[q].key = k /\ configFile[k] = Coerce(inp.set[q].value)

\* the update of the earlier writer is missing from the file
C28_Witness ==
  /\ phase = "running"
  /\ BothDone
  /\ \E q \in Procs \ {LastWriter} :
       /\ configFile[inp.set[q].key] = inp.file0[inp.set[q].key]
       /\ configFile[inp.set[q].key] # Coerce(inp.set[q].value)


\* C29: pull pops the stash, and offers to, only when the same invocation stashed
\* before; after 'Discard changes' or with a clean tree nothing is popped.
C29_PopsOnlyItsOwnStash ==
  (phase = "done" /\ cmd.name = "pull")
  => /\ Precedes(trace, "git.stash", "git.stashPop")
     /\ Precedes(trace, "git.stash", "prompt.confirm:restore")
     /\ (inp.choice = "discard" \/ ~(inp.changed \/ inp.conflicts)) => ~Has(trace, "git.stashPop")

\* C30: push hands --force to the engine only after the force-push prompt was confirmed
\* in the same invocation, and after a declined force-push prompt or a declined offer to
\* add the remote neither addRemote nor push is called.
C30_NoForceWithoutConsent ==
  (phase = "done" /\ cmd.name = "push")
  => /\ \A i \in 1..Len(trace) :
          trace[i] = "arg:--force"
          => \E j \in 1..(i - 2) : trace[j] = "prompt.confirm:force" /\ trace[j + 1] = "answer:yes"
     /\ \A i \in 1..Len(trace) :
          (trace[i] \in {"prompt.confirm:force", "prompt.confirm:add-remote"} /\ Declined(trace, i))
          => After(trace, i) \cap {"git.addRemote", "git.push"} = {}

C30_Witness ==
  /\ phase = "done"
  /\ cmd.name = "push"
  /\ cmd.o.force
  /\ Has(trace, "git.addRemote")
  /\ Has(trace, "prompt.confirm:force")
  /\ "force" \notin inp.yes
  /\ ~Has(trace, "git.push")
  /\ exitCode = 0

====
